---- MODULE Spec2Model ----
(***************************************************************************)
(* Model of the background script of audio-control-extension               *)
(* (src/entrypoints/background.ts, lines 1-335): the aggregator that       *)
(* keeps one TabAudioState per tab in extension storage, the fan-out to    *)
(* popup ports, and the WebSocket bridge to the desktop application.       *)
(*                                                                         *)
(* JavaScript objects are modelled as functions whose DOMAIN is the set of *)
(* keys that are present: a record read from storage may lack fields.      *)
(* A JavaScript value that may be undefined is modelled as a set: {} is    *)
(* undefined and {v} is the value v.                                       *)
(*                                                                         *)
(* Every async function is cut at its awaits.  A storage operation takes   *)
(* effect in the step in which its await resolves, and the code up to the  *)
(* next await runs in the same step.  A handler whose code before its      *)
(* first await has no effect starts and resolves that await in one step.   *)
(***************************************************************************)
EXTENDS Integers, Sequences, FiniteSets, TLC

\* ------------------------------------------------------------- bounds --
NumTabs == 2          \* tab ids are 1..NumTabs
MaxHandlers == 2      \* handlers that change the storage in one run
MaxInFlight == 2      \* async handlers suspended at an await at one time
MaxSockets == 3       \* WebSocket objects created in one run
MaxPorts == 1         \* popup ports opened in one run
\* popups attached when a run of the port registry starts
MaxPopups == 2
\* failed attempts already behind the bridge when a run starts
MaxAttempts == 5
NumElems == 2         \* media elements of the observed page are 1..NumElems
MaxEvents == 2        \* media events queued and not yet dispatched
MaxOutbox == 2        \* observer messages not yet received by the background

Tabs == 1..NumTabs
Volumes == {0, 1}     \* 0 is silence, 1 stands for any volume above 0
Elems == 1..NumElems
ObsTab == 1           \* the tab whose content script is modelled

VARIABLES
  tabStates,          \* the 'local:tabStates' storage item: tabId -> record
  tasks,              \* async handlers suspended at an await, in start order
  now,                \* Date.now()
  liveTabs,           \* tabs the host has open
  closedTabs,         \* tabs for which tabs.onRemoved has been delivered
  cleanup,            \* the cleanupStaleTabs() call made at startup
  nHandlers,          \* handlers that went on to change the storage so far
  popupPorts,         \* the popupPorts array
  nPorts,             \* ports opened so far
  deadPorts,          \* ports whose other end closed, onDisconnect not yet run
  lastBroadcast,      \* what the last sendTabsToPopupAndTauri posted
  uncaught,           \* the last exception no handler caught, "" for none
  socket,             \* the socket variable: index into sockets, 0 for null
  sockets,            \* every WebSocket object created so far
  status,             \* the status variable
  reconnectAttempts,  \* the reconnectAttempts variable
  heartbeatInterval,  \* TRUE iff heartbeatInterval names a live interval
  liveIntervals,      \* number of setInterval timers not cleared
  reconnectTimers,    \* pending setTimeout(() => connect(), delay) timers
  lastPing,           \* the socket the last ping frame was sent on, or 0
  lastDelay,          \* delay of the last reconnect scheduled since the last
                      \* open, 0 for none
  tauri,              \* tauriVolume and tauriMuted
  runtimeOut,         \* the last browser.runtime.sendMessage
  tabCmds,            \* last command sent to each tab's content script
  elements,           \* the media elements of the page of tab ObsTab
  inDom,              \* the elements document.querySelectorAll finds
  audioElements,      \* the audioElements Set, in insertion order
  isTabPlayingAudio,  \* the isTabPlayingAudio variable
  events,             \* media events queued by the page, in firing order
  outbox              \* messages of updateAudioStatus not yet received

aggVars == <<tabStates, tasks, now, liveTabs, closedTabs, cleanup, nHandlers>>
portVars == <<popupPorts, nPorts, deadPorts>>
bridgeVars == <<socket, sockets, status, reconnectAttempts, heartbeatInterval,
                liveIntervals, reconnectTimers, lastPing, lastDelay, runtimeOut>>
cmdVars == <<tauri, tabCmds>>
obsVars == <<elements, inDom, audioElements, isTabPlayingAudio, events, outbox>>
outVars == <<lastBroadcast, uncaught>>
vars == <<aggVars, portVars, outVars, bridgeVars, cmdVars, obsVars>>

\* --------------------------------------------------- JavaScript values --
Undefined == {}
Get(obj, f) == IF f \in DOMAIN obj THEN {obj[f]} ELSE Undefined
The(opt) == CHOOSE v \in opt : TRUE
\* a ?? b
Nullish(a, b) == IF a # Undefined THEN a ELSE b
\* a || b for strings
OrStr(a, b) == IF a # Undefined /\ a # {""} THEN a ELSE b
\* truthiness of a boolean field that may be missing
Truthy(obj, f) == f \in DOMAIN obj /\ obj[f]

EmptyObj == <<>>
\* { ...a, ...u }, both given as maps from keys to optional values
Spread(a, u) ==
  [f \in DOMAIN a \cup DOMAIN u |-> IF f \in DOMAIN u THEN u[f] ELSE a[f]]
\* obj.f where obj maps keys to optional values
GetOpt(o, f) == IF f \in DOMAIN o THEN o[f] ELSE Undefined
\* what storage keeps of an object: keys whose value is undefined are dropped
Persisted(o) == [f \in {g \in DOMAIN o : o[g] # Undefined} |-> The(o[f])]
\* an object as the optional-valued map used on the right of a spread
AsUpdates(r) == [f \in DOMAIN r |-> {r[f]}]
\* the numeric keys of an object, in the order for-in and Object.values use
KeysOf(map) == SelectSeq([i \in 1..NumTabs |-> i], LAMBDA i : i \in DOMAIN map)
RemoveAt(s, i) == [k \in 1..(Len(s) - 1) |-> IF k < i THEN s[k] ELSE s[k + 1]]

\* ------------------------------------------------------------ storage --
\* updateTabstate storing { ...updates, lastUpdate: Date.now() }, without the
\* spread of the stored record
UpdateTabstateReplace(map, tabId, updates, ts) ==
  [t \in DOMAIN map \cup {tabId} |->
     IF t = tabId THEN Persisted(Spread(updates, [lastUpdate |-> {ts}]))
     ELSE map[t]]

\* updateTabstate, from the resolved getTabstates() to the map handed to
\* setValue: { ...tabStates[tabId], ...updates, lastUpdate: Date.now() }
UpdateTabstate(map, tabId, updates, ts) ==
  LET old == IF tabId \in DOMAIN map THEN AsUpdates(map[tabId]) ELSE EmptyObj
      merged == Spread(Spread(old, updates), [lastUpdate |-> {ts}])
  IN  [t \in DOMAIN map \cup {tabId} |->
         IF t = tabId THEN Persisted(merged) ELSE map[t]]

\* deleteTabState, from the resolved getTabstates() to the map handed to
\* setValue: delete tabStates[tabId]
DeleteTabState(map, tabId) == [t \in DOMAIN map \ {tabId} |-> map[t]]

\* the filter without its tab.isAudible disjunct
IsAudioTabContentOnly(tab) ==
  Truthy(tab, "hasContentAudio") \/ Truthy(tab, "paused")

\* the filter of sendTabsToPopupAndTauri
IsAudioTab(tab) ==
  Truthy(tab, "isAudible") \/ Truthy(tab, "hasContentAudio") \/ Truthy(tab, "paused")

\* Object.values(tabstates).filter(...)
AudioTabs(map) ==
  LET ids == SelectSeq(KeysOf(map), LAMBDA i : IsAudioTab(map[i]))
  IN  [k \in 1..Len(ids) |-> map[ids[k]]]

\* ----------------------------------------------------- handler patches --
\* the literal both creating branches use for a tab without a record
DefaultState(tabId, ts) ==
  [tabId |-> {tabId}, url |-> {""}, title |-> {""}, isAudible |-> {FALSE},
   hasContentAudio |-> {FALSE}, is_muted |-> {FALSE}, paused |-> {FALSE},
   volume |-> {0}, lastUpdate |-> {ts}]

\* the updates tabs.onUpdated passes to updateTabstate; existing is the
\* optional tabstates[tabId] of the handler's own read
UpdatedUpdates(tabId, existing, audible, tab, ts) ==
  IF existing # Undefined
  THEN LET currentState == AsUpdates(The(existing))
       IN  [isAudible |-> audible,
            title |-> OrStr(GetOpt(tab, "title"), GetOpt(currentState, "title")),
            url |-> OrStr(GetOpt(tab, "url"), GetOpt(currentState, "url"))]
  ELSE Spread(DefaultState(tabId, ts),
              [url |-> OrStr(GetOpt(tab, "url"), {""}),
               title |-> OrStr(GetOpt(tab, "title"), {""}),
               isAudible |-> audible])

\* a || b for a boolean and for a number
OrBool(a, b) == IF a # Undefined /\ The(a) THEN a ELSE b
OrNum(a, b) == IF a # Undefined /\ The(a) # 0 THEN a ELSE b
\* the same updates with || in place of ?? for is_muted and volume
DetectedUpdatesOr(tabId, existing, message, ts) ==
  LET baseState == IF existing # Undefined THEN AsUpdates(The(existing))
                   ELSE DefaultState(tabId, ts)
  IN  Spread(baseState,
        [hasContentAudio |-> {TRUE},
         paused |-> {FALSE},
         url |-> OrStr(Get(message, "url"), GetOpt(baseState, "url")),
         title |-> OrStr(Get(message, "title"), GetOpt(baseState, "title")),
         is_muted |-> OrBool(Get(message, "muted"), GetOpt(baseState, "is_muted")),
         volume |-> OrNum(Get(message, "volume"), GetOpt(baseState, "volume"))])

\* the updates handleContentAudioDetected passes to updateTabstate
DetectedUpdates(tabId, existing, message, ts) ==
  LET baseState == IF existing # Undefined THEN AsUpdates(The(existing))
                   ELSE DefaultState(tabId, ts)
  IN  Spread(baseState,
        [hasContentAudio |-> {TRUE},
         paused |-> {FALSE},
         url |-> OrStr(Get(message, "url"), GetOpt(baseState, "url")),
         title |-> OrStr(Get(message, "title"), GetOpt(baseState, "title")),
         is_muted |-> Nullish(Get(message, "muted"), GetOpt(baseState, "is_muted")),
         volume |-> Nullish(Get(message, "volume"), GetOpt(baseState, "volume"))])

\* is_muted and volume as the Stopped, Paused and Changed handlers set them
MutedVolume(existingState, message) ==
  [is_muted |-> Nullish(Get(message, "muted"), Get(existingState, "is_muted")),
   volume |-> Nullish(Get(message, "volume"), Get(existingState, "volume"))]

\* the updates handleContentAudioStopped passes to updateTabstate
StoppedUpdates(existingState, message) ==
  Spread([hasContentAudio |-> {FALSE}, paused |-> {FALSE}],
         MutedVolume(existingState, message))

\* a pause patch that leaves hasContentAudio as stored
PausedUpdatesFlagOnly(existingState, message) ==
  Spread([paused |-> {TRUE}], MutedVolume(existingState, message))

\* the updates handleContentAudioPaused passes to updateTabstate
PausedUpdates(existingState, message) ==
  Spread([hasContentAudio |-> {TRUE}, paused |-> {TRUE}],
         MutedVolume(existingState, message))

\* the updates handleContentAudioChanged passes to updateTabstate
ChangedUpdates(existingState, message) == MutedVolume(existingState, message)

\* ------------------------------------------------------- event inputs --
\* what updateAudioStatus of the content script attaches to every message
ContentMetas == {[url |-> "u", title |-> ""], [url |-> "u", title |-> "t"]}
\* muted = element.muted || element.volume === 0, volume = element.volume
ElementMuted == {FALSE}
Payloads ==
  {[muted |-> m \/ v = 0, volume |-> v] : m \in ElementMuted, v \in Volumes}
\* AUDIO_STOPPED is sent without muted and volume
Messages ==
  {[type |-> "AUDIO_STOPPED", url |-> m.url, title |-> m.title] : m \in ContentMetas}
  \cup
  {[type |-> ty, muted |-> p.muted, volume |-> p.volume,
    url |-> m.url, title |-> m.title] :
     ty \in {"AUDIO_DETECTED", "AUDIO_PAUSED", "VOLUME_CHANGED"},
     p \in Payloads, m \in ContentMetas}
\* tab.url and tab.title of tabs.onUpdated: missing, or known to the host
HostTabs == {EmptyObj, [url |-> {"u"}, title |-> {"t"}]}
\* changeInfo.audible
Audibles == {Undefined, {TRUE}, {FALSE}}
\* the events of a page whose title is set and whose element is at volume 0,
\* in a tab whose url and title the host knows
PageMessages ==
  {m \in Messages : m.title = "t" /\ ("volume" \in DOMAIN m => m.volume = 0)}
PageHostTabs == HostTabs \ {EmptyObj}

\* ------------------------------------------------------ async handlers --
PatchTask(tabId, updates) ==
  [op |-> "patch", tabId |-> tabId, updates |-> updates, pc |-> "read",
   map |-> EmptyObj]
DeleteTask(tabId, map) ==
  [op |-> "delete", tabId |-> tabId, updates |-> EmptyObj, pc |-> "write",
   map |-> map]
SendTask ==
  [op |-> "send", tabId |-> 0, updates |-> EmptyObj, pc |-> "send",
   map |-> EmptyObj]

CanStart == nHandlers < MaxHandlers /\ Len(tasks) < MaxInFlight

\* handleContentAudioDetected up to its call of updateTabstate
HandleContentAudioDetected(tabId, message) ==
  tasks' = Append(tasks,
     PatchTask(tabId, DetectedUpdates(tabId, Get(tabStates, tabId), message, now)))

\* handleContentAudioStopped up to its call of updateTabstate
HandleContentAudioStopped(tabId, message) ==
  tasks' = IF tabId \in DOMAIN tabStates
           THEN Append(tasks, PatchTask(tabId, StoppedUpdates(tabStates[tabId], message)))
           ELSE tasks

\* handleContentAudioPaused up to its call of updateTabstate
HandleContentAudioPaused(tabId, message) ==
  tasks' = IF tabId \in DOMAIN tabStates
           THEN Append(tasks, PatchTask(tabId, PausedUpdates(tabStates[tabId], message)))
           ELSE tasks

\* handleContentAudioChanged up to its call of updateTabstate
HandleContentAudioChanged(tabId, message) ==
  tasks' = IF tabId \in DOMAIN tabStates
           THEN Append(tasks, PatchTask(tabId, ChangedUpdates(tabStates[tabId], message)))
           ELSE tasks

\* the browser.runtime.onMessage listener; sender.tab.id is tabId
RuntimeOnMessage(tabId, message) ==
  /\ CanStart
  /\ tabId \in liveTabs \cup closedTabs
  /\ CASE message.type = "AUDIO_DETECTED" -> HandleContentAudioDetected(tabId, message)
       [] message.type = "AUDIO_STOPPED" -> HandleContentAudioStopped(tabId, message)
       [] message.type = "AUDIO_PAUSED" -> HandleContentAudioPaused(tabId, message)
       [] message.type = "VOLUME_CHANGED" -> HandleContentAudioChanged(tabId, message)
  /\ nHandlers' = IF tasks' # tasks THEN nHandlers + 1 ELSE nHandlers
  /\ UNCHANGED <<tabStates, now, liveTabs, closedTabs, cleanup>>
  /\ UNCHANGED <<portVars, outVars, bridgeVars, cmdVars>>

\* the listener run for a message of a content script that is not modelled
OnMessage(tabId, message) ==
  /\ RuntimeOnMessage(tabId, message)
  /\ UNCHANGED obsVars

\* the browser.tabs.onUpdated listener up to its call of updateTabstate
OnUpdated(tabId, audible, tab) ==
  /\ CanStart
  /\ tabId \in liveTabs
  /\ tasks' = IF audible # Undefined
               THEN Append(tasks,
                      PatchTask(tabId,
                        UpdatedUpdates(tabId, Get(tabStates, tabId), audible, tab, now)))
               ELSE tasks
  /\ nHandlers' = IF tasks' # tasks THEN nHandlers + 1 ELSE nHandlers
  /\ UNCHANGED <<tabStates, now, liveTabs, closedTabs, cleanup>>
  /\ UNCHANGED <<portVars, outVars, bridgeVars, cmdVars, obsVars>>

\* the browser.tabs.onRemoved listener up to setValue in deleteTabState
OnRemoved(tabId) ==
  /\ CanStart
  /\ tabId \in liveTabs
  /\ liveTabs' = liveTabs \ {tabId}
  /\ closedTabs' = closedTabs \cup {tabId}
  /\ tasks' = Append(tasks, DeleteTask(tabId, DeleteTabState(tabStates, tabId)))
  /\ nHandlers' = nHandlers + 1
  /\ UNCHANGED <<tabStates, now, cleanup>>
  /\ UNCHANGED <<portVars, outVars, bridgeVars, cmdVars, obsVars>>

\* updateTabstate: getTabstates() resolves, the record is merged and stamped
\* and the map is handed to setValue; elapsed is the time since Date.now()
\* was last read
PatchRead(i, elapsed) ==
  /\ i \in DOMAIN tasks
  /\ tasks[i].op = "patch" /\ tasks[i].pc = "read"
  /\ now' = now + elapsed
  /\ tasks' = [tasks EXCEPT ![i].pc = "write",
                            ![i].map = UpdateTabstate(tabStates, tasks[i].tabId,
                                                      tasks[i].updates, now + elapsed)]
  /\ UNCHANGED <<tabStates, liveTabs, closedTabs, cleanup, nHandlers>>
  /\ UNCHANGED <<portVars, outVars, bridgeVars, cmdVars, obsVars>>

\* tabStatesStorage.setValue(tabStates) of a handler takes effect; the
\* handler goes on to sendTabsToPopupAndTauri
StorageWrite(i) ==
  /\ i \in DOMAIN tasks
  /\ tasks[i].pc = "write"
  /\ tabStates' = tasks[i].map
  /\ tasks' = [tasks EXCEPT ![i] = SendTask]
  /\ UNCHANGED <<now, liveTabs, closedTabs, cleanup, nHandlers>>
  /\ UNCHANGED <<portVars, outVars, bridgeVars, cmdVars, obsVars>>

SocketIsOpen == socket # 0 /\ sockets[socket].readyState = "OPEN"
Range(s) == {s[k] : k \in DOMAIN s}

\* a rejected setValue after which the handler goes on to broadcast
StorageWriteFailsSilently(i) ==
  /\ i \in DOMAIN tasks
  /\ tasks[i].pc = "write"
  /\ tasks' = [tasks EXCEPT ![i] = SendTask]
  /\ uncaught' = "setValue"
  /\ UNCHANGED <<tabStates, now, liveTabs, closedTabs, cleanup, nHandlers>>
  /\ UNCHANGED <<portVars, lastBroadcast, bridgeVars, cmdVars, obsVars>>

\* tabStatesStorage.setValue(tabStates) of a handler rejects: the await in
\* updateTabstate or deleteTabState throws and the handler ends there
StorageWriteFails(i) ==
  /\ i \in DOMAIN tasks
  /\ tasks[i].pc = "write"
  /\ tasks' = RemoveAt(tasks, i)
  /\ uncaught' = "setValue"
  /\ UNCHANGED <<tabStates, now, liveTabs, closedTabs, cleanup, nHandlers>>
  /\ UNCHANGED <<portVars, lastBroadcast, bridgeVars, cmdVars, obsVars>>

\* the ports popupPorts.forEach reaches: all of them, or those before the
\* port whose postMessage throws
PostedPorts(throws) ==
  IF throws
  THEN LET k == CHOOSE j \in DOMAIN popupPorts :
                  /\ popupPorts[j] \in deadPorts
                  /\ \A h \in 1..(j - 1) : popupPorts[h] \notin deadPorts
       IN  SubSeq(popupPorts, 1, k - 1)
  ELSE popupPorts

\* a broadcast that posts to the ports only while the socket is open
SendTabsNeedsSocket(i) ==
  /\ i \in DOMAIN tasks
  /\ tasks[i].pc = "send"
  /\ lastBroadcast' = [tabs |-> AudioTabs(tabStates),
                        ports |-> IF SocketIsOpen THEN popupPorts ELSE <<>>,
                        socket |-> IF SocketIsOpen THEN socket ELSE 0]
  /\ tasks' = RemoveAt(tasks, i)
  /\ UNCHANGED <<tabStates, now, liveTabs, closedTabs, cleanup, nHandlers>>
  /\ UNCHANGED <<portVars, uncaught, bridgeVars, cmdVars, obsVars>>

\* sendTabsToPopupAndTauri: getTabstates() resolves, the filtered records
\* are posted to every popup port and, when the socket is open, sent on it;
\* postMessage on a port whose other end has closed throws or drops the
\* message, and a throw ends the forEach and the function
SendTabsToPopupAndTauri(i) ==
  /\ i \in DOMAIN tasks
  /\ tasks[i].pc = "send"
  /\ \E throws \in BOOLEAN :
       /\ throws => \E j \in DOMAIN popupPorts : popupPorts[j] \in deadPorts
       /\ lastBroadcast' = [tabs |-> AudioTabs(tabStates),
                             ports |-> PostedPorts(throws),
                             socket |-> IF ~throws /\ SocketIsOpen THEN socket ELSE 0]
       /\ uncaught' = IF throws THEN "postMessage" ELSE uncaught
  /\ tasks' = RemoveAt(tasks, i)
  /\ UNCHANGED <<tabStates, now, liveTabs, closedTabs, cleanup, nHandlers>>
  /\ UNCHANGED <<portVars, bridgeVars, cmdVars, obsVars>>

\* ----------------------------------------------------- startup cleanup --
\* cleanupStaleTabs: browser.tabs.query({}) resolves; the loop reaches the
\* first stored key that is not a live tab and calls deleteTabState
CleanupQuery ==
  /\ cleanup.pc = "query"
  /\ LET stale == SelectSeq(cleanup.keys, LAMBDA k : k \notin liveTabs)
     IN  cleanup' = [cleanup EXCEPT !.pc = IF stale = <<>> THEN "done" ELSE "read",
                                    !.keys = stale, !.valid = liveTabs]
  /\ UNCHANGED <<tabStates, tasks, now, liveTabs, closedTabs, nHandlers>>
  /\ UNCHANGED <<portVars, outVars, bridgeVars, cmdVars, obsVars>>

\* deleteTabState called by cleanupStaleTabs: getTabstates() resolves
CleanupRead ==
  /\ cleanup.pc = "read"
  /\ cleanup' = [cleanup EXCEPT !.pc = "write",
                                 !.map = DeleteTabState(tabStates, Head(cleanup.keys))]
  /\ UNCHANGED <<tabStates, tasks, now, liveTabs, closedTabs, nHandlers>>
  /\ UNCHANGED <<portVars, outVars, bridgeVars, cmdVars, obsVars>>

\* deleteTabState called by cleanupStaleTabs: setValue takes effect and the
\* loop goes on to the next stale key
CleanupWrite ==
  /\ cleanup.pc = "write"
  /\ tabStates' = cleanup.map
  /\ cleanup' = [cleanup EXCEPT !.pc = IF Len(cleanup.keys) > 1 THEN "read" ELSE "done",
                                 !.keys = Tail(cleanup.keys), !.map = EmptyObj]
  /\ UNCHANGED <<tasks, now, liveTabs, closedTabs, nHandlers>>
  /\ UNCHANGED <<portVars, outVars, bridgeVars, cmdVars, obsVars>>

\* ------------------------------------------------------------- bridge --
BaseDelay == 1000
MaxDelay == 30000
CloseCodes == {1000, 1001, 1006}
Min(a, b) == IF a < b THEN a ELSE b

\* an assignment of status that sends nothing
UpdateStatusSilent(newStatus) ==
  /\ status' = newStatus
  /\ UNCHANGED runtimeOut

\* updateStatus
UpdateStatus(newStatus) ==
  /\ status' = newStatus
  /\ runtimeOut' = [type |-> "SERVER_STATUS", status |-> newStatus]

\* socket.close() without the four assignments of null
NeutralizeKeepsCallbacks(ws) ==
  [ws EXCEPT !.readyState = IF @ = "CLOSED" THEN "CLOSED" ELSE "CLOSING"]

\* socket.onopen = socket.onclose = socket.onerror = socket.onmessage = null;
\* socket.close()
Neutralize(ws) ==
  [ws EXCEPT !.hooked = FALSE,
             !.readyState = IF @ = "CLOSED" THEN "CLOSED" ELSE "CLOSING"]

\* connect: the previous socket, if any, is unhooked and closed, then a new
\* WebSocket gets the four callbacks
Connect ==
  /\ Len(sockets) < MaxSockets
  /\ sockets' = Append(IF socket # 0
                        THEN [sockets EXCEPT ![socket] = Neutralize(@)]
                        ELSE sockets,
                        [readyState |-> "CONNECTING", hooked |-> TRUE])
  /\ socket' = Len(sockets) + 1
  /\ IF socket # 0 THEN UpdateStatus("DISCONNECTED")
                   ELSE UNCHANGED <<status, runtimeOut>>
  /\ UNCHANGED <<reconnectAttempts, heartbeatInterval, liveIntervals, lastPing,
                 lastDelay>>

\* clearInterval(heartbeatInterval)
ClearedIntervals == IF heartbeatInterval THEN liveIntervals - 1 ELSE liveIntervals

\* an open event whose callback sets the interval without clearing the one
\* before
SocketOpenKeepsInterval(s) ==
  /\ s \in DOMAIN sockets
  /\ sockets[s].readyState = "CONNECTING"
  /\ sockets' = [sockets EXCEPT ![s].readyState = "OPEN"]
  /\ IF sockets[s].hooked
     THEN /\ Len(tasks) < MaxInFlight
          /\ UpdateStatus("CONNECTED")
          /\ reconnectAttempts' = 0
          /\ liveIntervals' = liveIntervals + 1
          /\ heartbeatInterval' = TRUE
          /\ lastDelay' = 0
          /\ tasks' = Append(tasks, SendTask)
     ELSE UNCHANGED <<status, runtimeOut, reconnectAttempts, liveIntervals,
                      heartbeatInterval, lastDelay, tasks>>
  /\ UNCHANGED <<socket, reconnectTimers, lastPing>>
  /\ UNCHANGED <<tabStates, now, liveTabs, closedTabs, cleanup, nHandlers>>
  /\ UNCHANGED <<portVars, outVars, cmdVars, obsVars>>

\* the open event of WebSocket s; socket.onopen runs if s still has it
SocketOpen(s) ==
  /\ s \in DOMAIN sockets
  /\ sockets[s].readyState = "CONNECTING"
  /\ sockets' = [sockets EXCEPT ![s].readyState = "OPEN"]
  /\ IF sockets[s].hooked
     THEN /\ Len(tasks) < MaxInFlight
          /\ UpdateStatus("CONNECTED")
          /\ reconnectAttempts' = 0
          /\ liveIntervals' = ClearedIntervals + 1
          /\ heartbeatInterval' = TRUE
          /\ lastDelay' = 0
          /\ tasks' = Append(tasks, SendTask)
     ELSE UNCHANGED <<status, runtimeOut, reconnectAttempts, liveIntervals,
                      heartbeatInterval, lastDelay, tasks>>
  /\ UNCHANGED <<socket, reconnectTimers, lastPing>>
  /\ UNCHANGED <<tabStates, now, liveTabs, closedTabs, cleanup, nHandlers>>
  /\ UNCHANGED <<portVars, outVars, cmdVars, obsVars>>

\* a delay without the ceiling
ReconnectDelayUncapped(attempts) == BaseDelay * 2 ^ attempts

\* Math.min(1000 * 2 ** reconnectAttempts, 30000)
ReconnectDelay(attempts) == Min(BaseDelay * 2 ^ attempts, MaxDelay)

\* socket.onclose testing event.code === 1000 only
OnCloseNormalOnly(s, code) ==
  /\ liveIntervals' = ClearedIntervals
  /\ heartbeatInterval' = FALSE
  /\ IF code = 1000
     THEN /\ UpdateStatus("DISCONNECTED")
          /\ reconnectAttempts' = 0
          /\ UNCHANGED <<reconnectTimers, lastDelay>>
     ELSE /\ UpdateStatus("RECONNECTING")
          /\ reconnectAttempts' = reconnectAttempts + 1
          /\ lastDelay' = ReconnectDelay(reconnectAttempts + 1)
          /\ reconnectTimers' =
               Append(reconnectTimers,
                      [delay |-> ReconnectDelay(reconnectAttempts + 1), session |-> s])

\* a close handler that leaves the attempt counter alone
OnCloseKeepsAttempts(s, code) ==
  /\ liveIntervals' = ClearedIntervals
  /\ heartbeatInterval' = FALSE
  /\ IF code = 1000 \/ code = 1001
     THEN /\ UpdateStatus("DISCONNECTED")
          /\ reconnectAttempts' = 0
          /\ UNCHANGED <<reconnectTimers, lastDelay>>
     ELSE /\ UpdateStatus("RECONNECTING")
          /\ reconnectAttempts' = reconnectAttempts
          /\ lastDelay' = ReconnectDelay(reconnectAttempts + 1)
          /\ reconnectTimers' =
               Append(reconnectTimers,
                      [delay |-> ReconnectDelay(reconnectAttempts + 1), session |-> s])

\* socket.onclose
OnClose(s, code) ==
  /\ liveIntervals' = ClearedIntervals
  /\ heartbeatInterval' = FALSE
  /\ IF code = 1000 \/ code = 1001
     THEN /\ UpdateStatus("DISCONNECTED")
          /\ reconnectAttempts' = 0
          /\ UNCHANGED <<reconnectTimers, lastDelay>>
     ELSE /\ UpdateStatus("RECONNECTING")
          /\ reconnectAttempts' = reconnectAttempts + 1
          /\ lastDelay' = ReconnectDelay(reconnectAttempts + 1)
          /\ reconnectTimers' =
               Append(reconnectTimers,
                      [delay |-> ReconnectDelay(reconnectAttempts + 1), session |-> s])

\* socket.onerror: console.error only
OnError(s) == TRUE

\* WebSocket s closes: readyState becomes CLOSED, a failed connection (a code
\* other than 1000 and 1001) fires the error event, then the close event
\* fires; the callbacks run if s still has them.  A socket that never opened
\* has had no closing handshake and closes with a failure code
SocketClose(s, code) ==
  /\ s \in DOMAIN sockets
  /\ sockets[s].readyState # "CLOSED"
  /\ sockets[s].readyState = "CONNECTING" => code \notin {1000, 1001}
  /\ sockets' = [sockets EXCEPT ![s].readyState = "CLOSED"]
  /\ IF sockets[s].hooked
     THEN (code \notin {1000, 1001} => OnError(s)) /\ OnClose(s, code)
     ELSE UNCHANGED <<status, runtimeOut, reconnectAttempts, liveIntervals,
                      heartbeatInterval, reconnectTimers, lastDelay>>
  /\ UNCHANGED <<socket, lastPing>>
  /\ UNCHANGED <<aggVars, portVars, outVars, cmdVars, obsVars>>

\* the callback given to setInterval in socket.onopen
HeartbeatFire ==
  /\ liveIntervals > 0
  /\ SocketIsOpen
  /\ lastPing' = socket
  /\ UNCHANGED <<socket, sockets, status, reconnectAttempts, heartbeatInterval,
                 liveIntervals, reconnectTimers, lastDelay, runtimeOut>>
  /\ UNCHANGED <<aggVars, portVars, outVars, cmdVars, obsVars>>

\* a setTimeout callback that never calls connect()
ReconnectTimerLost(k) ==
  /\ k \in DOMAIN reconnectTimers
  /\ reconnectTimers' = RemoveAt(reconnectTimers, k)
  /\ UNCHANGED <<socket, sockets, status, reconnectAttempts, heartbeatInterval,
                 liveIntervals, lastPing, lastDelay, runtimeOut>>
  /\ UNCHANGED <<aggVars, portVars, outVars, cmdVars, obsVars>>

\* the callback given to setTimeout in socket.onclose
ReconnectTimerFire(k) ==
  /\ k \in DOMAIN reconnectTimers
  /\ reconnectTimers' = RemoveAt(reconnectTimers, k)
  /\ Connect
  /\ UNCHANGED <<aggVars, portVars, outVars, cmdVars, obsVars>>

\* the flat frame onmessage reads: data.volume and data.muted
SliderFrames == {[volume |-> 1, muted |-> FALSE]}
\* the frames of the socket protocol, and the flat frame
Frames ==
  {[setVolume |-> [tabId |-> t, volume |-> v]] : t \in Tabs, v \in Volumes}
  \cup {[setMute |-> [tabId |-> t, mute |-> m]] : t \in Tabs, m \in BOOLEAN}
  \cup SliderFrames

\* event.data that JSON.parse rejects, given as the error it throws
Unparseable == [SyntaxError |-> "Unexpected token"]
\* event.data of a message event: a frame as text, or text that is no JSON
RawFrames == Frames \cup {Unparseable}
\* JSON.parse(event.data) returns
Parses(data) == "SyntaxError" \notin DOMAIN data

\* the message event of WebSocket s, which can still be queued when s is
\* being closed; socket.onmessage runs if s still has it, and ends at
\* JSON.parse when that throws
SocketMessage(s, data) ==
  /\ s \in DOMAIN sockets
  /\ sockets[s].readyState \in {"OPEN", "CLOSING"}
  /\ IF sockets[s].hooked /\ Parses(data)
     THEN /\ tauri' = [volume |-> Get(data, "volume"), muted |-> Get(data, "muted")]
          /\ runtimeOut' = [type |-> "TAURI_VOLUME_CHANGED",
                             tauriVolume |-> Get(data, "volume"),
                             tauriMuted |-> Get(data, "muted")]
     ELSE UNCHANGED <<tauri, runtimeOut>>
  /\ uncaught' = IF sockets[s].hooked /\ ~Parses(data) THEN "SyntaxError"
                  ELSE uncaught
  /\ UNCHANGED <<socket, sockets, status, reconnectAttempts, heartbeatInterval,
                 liveIntervals, reconnectTimers, lastPing, lastDelay, tabCmds>>
  /\ UNCHANGED obsVars
  /\ UNCHANGED <<aggVars, portVars, lastBroadcast>>

\* -------------------------------------------------------- popup ports --
\* the browser.runtime.onConnect listener, for a port named 'popup'
OnConnect ==
  /\ nPorts < MaxPorts
  /\ nPorts' = nPorts + 1
  /\ popupPorts' = Append(popupPorts, nPorts + 1)
  /\ UNCHANGED deadPorts
  /\ UNCHANGED <<aggVars, outVars, bridgeVars, cmdVars, obsVars>>

\* the popup at the other end of a port closes; the disconnect event of the
\* port is queued
PortCloses(port) ==
  /\ port \in Range(popupPorts) \ deadPorts
  /\ deadPorts' = deadPorts \cup {port}
  /\ UNCHANGED <<popupPorts, nPorts>>
  /\ UNCHANGED <<aggVars, outVars, bridgeVars, cmdVars, obsVars>>

\* a disconnect listener that empties the registry
OnDisconnectClearsAll(port) ==
  /\ port \in Range(popupPorts)
  /\ popupPorts' = <<>>
  /\ deadPorts' = deadPorts \ {port}
  /\ UNCHANGED nPorts
  /\ UNCHANGED <<aggVars, outVars, cmdVars, obsVars>>
  /\ UNCHANGED bridgeVars

\* the port.onDisconnect listener
OnDisconnect(port) ==
  /\ port \in Range(popupPorts)
  /\ popupPorts' = SelectSeq(popupPorts, LAMBDA p : p # port)
  /\ deadPorts' = deadPorts \ {port}
  /\ UNCHANGED nPorts
  /\ UNCHANGED <<aggVars, outVars, cmdVars, obsVars>>
  /\ UNCHANGED bridgeVars

\* the port.onMessage listener, for a GET_AUDIO_TABS message
OnGetAudioTabs(port) ==
  /\ port \in Range(popupPorts)
  /\ Connect
  /\ UNCHANGED <<portVars, reconnectTimers>>
  /\ UNCHANGED <<aggVars, outVars, cmdVars, obsVars>>

\* changeVolume of the popup: browser.tabs.sendMessage(tabID, ...)
ChangeVolume(tabID, newVolume) ==
  /\ popupPorts # <<>>
  /\ tabID \in liveTabs
  /\ tabCmds' = [tabCmds EXCEPT ![tabID] =
                   [type |-> "UI_VOLUME_CHANGE", volume |-> newVolume]]
  /\ UNCHANGED <<tauri, obsVars>>
  /\ UNCHANGED <<aggVars, portVars, outVars, bridgeVars>>

\* setMute of the popup: browser.tabs.sendMessage(tabID, ...)
SetMute(tabID, muted, startVolume) ==
  /\ popupPorts # <<>>
  /\ tabID \in liveTabs
  /\ tabCmds' = [tabCmds EXCEPT ![tabID] =
                   [type |-> "UI_MUTE_SET", isMuted |-> muted,
                    initialVolume |-> startVolume]]
  /\ UNCHANGED <<tauri, obsVars>>
  /\ UNCHANGED <<aggVars, portVars, outVars, bridgeVars>>

\* ------------------------------------------------- document observer --
\* The content script of tab ObsTab (src/entrypoints/content.ts, lines
\* 1-275).  A media element is a record of the attributes the script reads;
\* the page changes them and queues the media events, which are dispatched
\* one at a time to the listeners the script has added.
MediaEvents ==
  {"play", "playing", "pause", "ended", "volumechange", "loadedmetadata", "canplay"}

\* !element.paused && !element.ended && element.readyState > 0
IsPlaying(el) == ~el.paused /\ ~el.ended /\ el.readyState > 0
\* !element.paused && element.readyState > 0
IsPlayingLoaded(el) == ~el.paused /\ el.readyState > 0
\* muted as the flag of the element alone
ReportedMutedFlagOnly(el) == el.muted

\* element.muted || element.volume === 0
ReportedMuted(el) == el.muted \/ el.volume = 0
\* {muted, volume} as the listeners compute it
ElementData(el) == [muted |-> ReportedMuted(el), volume |-> el.volume]

\* the message updateAudioStatus sends: { type, ...data, url, title }
UpdateAudioStatus(state, data) ==
  LET meta == [url |-> "u", title |-> "t"]
  IN  [f \in {"type"} \cup DOMAIN data \cup DOMAIN meta |->
         IF f \in DOMAIN meta THEN meta[f]
         ELSE IF f \in DOMAIN data THEN data[f] ELSE state]

\* checkAnyAudioPlaying: the new isTabPlayingAudio and the messages sent;
\* the forEach leaves the volume and muted of the last playing element
CheckAnyAudioPlaying(els, tracked, flag) ==
  LET playing == SelectSeq(tracked, LAMBDA e : IsPlaying(els[e]))
  IN  IF playing # <<>>
      THEN [flag |-> TRUE,
            out |-> <<UpdateAudioStatus("AUDIO_DETECTED",
                                        ElementData(els[playing[Len(playing)]]))>>]
      ELSE [flag |-> FALSE,
            out |-> IF flag THEN <<UpdateAudioStatus("AUDIO_STOPPED", EmptyObj)>>
                    ELSE <<>>]

\* a pause listener that stops after checkAnyAudioPlaying
PauseListenerCheckOnly(els, tracked, flag, e) ==
  CheckAnyAudioPlaying(els, tracked, flag)

\* a pause listener without the aggregate check
PauseListenerUnchecked(els, tracked, flag, e) ==
  [flag |-> FALSE,
   out |-> <<UpdateAudioStatus("AUDIO_PAUSED", ElementData(els[e]))>>]

\* the pause listener of element e
PauseListener(els, tracked, flag, e) ==
  LET c == CheckAnyAudioPlaying(els, tracked, flag)
  IN  [flag |-> c.flag,
       out |-> IF c.flag = FALSE
               THEN c.out \o <<UpdateAudioStatus("AUDIO_PAUSED", ElementData(els[e]))>>
               ELSE c.out]

\* the listeners addMediaEventListener adds to element e
Listener(type, els, tracked, flag, e) ==
  LET detected == <<UpdateAudioStatus("AUDIO_DETECTED", ElementData(els[e]))>>
  IN  CASE type \in {"play", "playing"} -> [flag |-> TRUE, out |-> detected]
        [] type = "pause" -> PauseListener(els, tracked, flag, e)
        [] type = "ended" ->
             LET c == CheckAnyAudioPlaying(els, tracked, flag)
             IN  [flag |-> c.flag,
                  out |-> IF c.flag = FALSE
                          THEN c.out \o <<UpdateAudioStatus("AUDIO_STOPPED", EmptyObj)>>
                          ELSE c.out]
        [] type = "volumechange" ->
             [flag |-> flag,
              out |-> <<UpdateAudioStatus("VOLUME_CHANGED", ElementData(els[e]))>>]
        [] type = "loadedmetadata" ->
             [flag |-> flag,
              out |-> IF IsPlayingLoaded(els[e]) THEN detected ELSE <<>>]
        [] type = "canplay" ->
             [flag |-> flag, out |-> IF ~els[e].paused THEN detected ELSE <<>>]

\* the first queued media event is dispatched; a listener runs if the
\* element is tracked
DispatchEvent ==
  /\ events # <<>>
  /\ LET ev == Head(events)
         r == IF \E k \in DOMAIN audioElements : audioElements[k] = ev.elem
              THEN Listener(ev.type, elements, audioElements, isTabPlayingAudio,
                            ev.elem)
              ELSE [flag |-> isTabPlayingAudio, out |-> <<>>]
     IN  /\ Len(outbox) + Len(r.out) <= MaxOutbox
         /\ isTabPlayingAudio' = r.flag
         /\ outbox' = outbox \o r.out
  /\ events' = Tail(events)
  /\ UNCHANGED <<elements, inDom, audioElements>>
  /\ UNCHANGED <<aggVars, portVars, outVars, bridgeVars, cmdVars>>

\* the elements of the document that are not tracked, in document order
Untracked ==
  SelectSeq([e \in 1..NumElems |-> e],
            LAMBDA e : e \in inDom /\ \A k \in DOMAIN audioElements : audioElements[k] # e)

\* scanForMediaElements: the new isTabPlayingAudio and the messages sent
ScanResult ==
  LET found == SelectSeq(Untracked, LAMBDA e : IsPlayingLoaded(elements[e]))
  IN  [flag |-> isTabPlayingAudio \/ found # <<>>,
       out |-> [k \in DOMAIN found |->
                  UpdateAudioStatus("AUDIO_DETECTED", ElementData(elements[found[k]]))]]

\* setTimeout(scanForMediaElements): the scan after startup or after the
\* MutationObserver saw a media element added
ScanForMediaElements ==
  /\ Untracked # <<>>
  /\ Len(outbox) + Len(ScanResult.out) <= MaxOutbox
  /\ audioElements' = audioElements \o Untracked
  /\ isTabPlayingAudio' = ScanResult.flag
  /\ outbox' = outbox \o ScanResult.out
  /\ UNCHANGED <<elements, inDom, events>>
  /\ UNCHANGED <<aggVars, portVars, outVars, bridgeVars, cmdVars>>

\* the setInterval callback of setupPeriodicCheck
PeriodicCheck ==
  LET c == IF ScanResult.flag
           THEN CheckAnyAudioPlaying(elements, audioElements \o Untracked, TRUE)
           ELSE [flag |-> FALSE, out |-> <<>>]
  IN  /\ Len(outbox) + Len(ScanResult.out) + Len(c.out) <= MaxOutbox
      /\ audioElements' = audioElements \o Untracked
      /\ isTabPlayingAudio' = c.flag
      /\ outbox' = outbox \o ScanResult.out \o c.out
      /\ UNCHANGED <<elements, inDom, events>>
      /\ UNCHANGED <<aggVars, portVars, outVars, bridgeVars, cmdVars>>

\* the replacement of AudioContext.prototype.createMediaElementSource, called
\* by the page with element e
CreateMediaElementSource(e) ==
  /\ \A k \in DOMAIN audioElements : audioElements[k] # e
  /\ audioElements' = Append(audioElements, e)
  /\ UNCHANGED <<elements, inDom, isTabPlayingAudio, events, outbox>>
  /\ UNCHANGED <<aggVars, portVars, outVars, bridgeVars, cmdVars>>

\* ---- the page
\* the media events queued for element e, in firing order
Fired(e, types) == [k \in DOMAIN types |-> [elem |-> e, type |-> types[k]]]

\* element e starts playing; fired is what the page lets the browser fire
ElementPlays(e, fired) ==
  /\ elements[e].paused
  /\ Len(events) + Len(fired) <= MaxEvents
  /\ elements' = [elements EXCEPT ![e].paused = FALSE, ![e].ended = FALSE]
  /\ events' = events \o Fired(e, fired)
  /\ UNCHANGED <<inDom, audioElements, isTabPlayingAudio, outbox>>
  /\ UNCHANGED <<aggVars, portVars, outVars, bridgeVars, cmdVars>>

\* element e is paused by the page or the user: the pause event is queued
ElementPauses(e) ==
  /\ ~elements[e].paused
  /\ Len(events) < MaxEvents
  /\ elements' = [elements EXCEPT ![e].paused = TRUE]
  /\ events' = Append(events, [elem |-> e, type |-> "pause"])
  /\ UNCHANGED <<inDom, audioElements, isTabPlayingAudio, outbox>>
  /\ UNCHANGED <<aggVars, portVars, outVars, bridgeVars, cmdVars>>

\* element e plays to its end: ended becomes true; a browser that follows
\* the HTML rule for reaching the end also pauses the element and fires pause
\* before ended, another leaves paused false and fires ended alone
ElementEnds(e, pauses) ==
  /\ ~elements[e].paused /\ ~elements[e].ended
  /\ LET fired == IF pauses THEN <<"pause", "ended">> ELSE <<"ended">>
     IN  /\ Len(events) + Len(fired) <= MaxEvents
         /\ events' = events \o Fired(e, fired)
  /\ elements' = [elements EXCEPT ![e].ended = TRUE,
                                  ![e].paused = pauses]
  /\ UNCHANGED <<inDom, audioElements, isTabPlayingAudio, outbox>>
  /\ UNCHANGED <<aggVars, portVars, outVars, bridgeVars, cmdVars>>

\* the page inserts element e into the document
ElementInserted(e) ==
  /\ e \notin inDom
  /\ inDom' = inDom \cup {e}
  /\ UNCHANGED <<elements, audioElements, isTabPlayingAudio, events, outbox>>
  /\ UNCHANGED <<aggVars, portVars, outVars, bridgeVars, cmdVars>>

\* ---- commands
\* ToBoolean of a value that may be undefined, as the muted setter converts
ToBoolean(opt) == opt = {TRUE}

\* what the UI_MUTE_SET branch does to one element
MuteSet(el, message) ==
  IF GetOpt(message, "is_muted") = {FALSE} /\ el.volume = 0
  THEN [el EXCEPT !.volume = The(GetOpt(message, "initialVolume"))]
  ELSE [el EXCEPT !.muted = ToBoolean(GetOpt(message, "is_muted"))]

\* what the UI_VOLUME_CHANGE branch does to one element
VolumeSet(el, message) == [el EXCEPT !.volume = message.volume]

\* the elements after the content script's onMessage listener has handled
\* message: only tracked elements are touched
Commanded(message) ==
  [e \in Elems |->
     IF \A k \in DOMAIN audioElements : audioElements[k] # e THEN elements[e]
     ELSE IF message.type = "UI_VOLUME_CHANGE" THEN VolumeSet(elements[e], message)
     ELSE IF message.type = "UI_MUTE_SET"
          THEN MuteSet(elements[e], AsUpdates(message))
          ELSE elements[e]]

\* the browser.runtime.onMessage listener of the content script receives
\* the command sent to tab ObsTab; an element whose volume or muted changed
\* gets a volumechange event
OnCommand ==
  /\ tabCmds[ObsTab] # EmptyObj
  /\ LET after == Commanded(tabCmds[ObsTab])
         changed == SelectSeq(audioElements, LAMBDA e : after[e] # elements[e])
     IN  /\ Len(events) + Len(changed) <= MaxEvents
         /\ elements' = after
         /\ events' = events \o [k \in DOMAIN changed |->
                                  [elem |-> changed[k], type |-> "volumechange"]]
  /\ tabCmds' = [tabCmds EXCEPT ![ObsTab] = EmptyObj]
  /\ UNCHANGED <<tauri, inDom, audioElements, isTabPlayingAudio, outbox>>
  /\ UNCHANGED <<aggVars, portVars, outVars, bridgeVars>>

\* the background receives the oldest message of the content script
ObserverMessageArrives ==
  /\ outbox # <<>>
  /\ RuntimeOnMessage(ObsTab, Head(outbox))
  /\ outbox' = Tail(outbox)
  /\ UNCHANGED <<elements, inDom, audioElements, isTabPlayingAudio, events>>

\* browser.runtime.sendMessage hands the oldest message over; what the
\* background does with it is left out
MessageLeaves ==
  /\ outbox # <<>>
  /\ outbox' = Tail(outbox)
  /\ UNCHANGED <<elements, inDom, audioElements, isTabPlayingAudio, events>>
  /\ UNCHANGED <<aggVars, portVars, outVars, bridgeVars, cmdVars>>

\* an element nobody has touched: paused, loaded, at full volume
IdleElement ==
  [paused |-> TRUE, ended |-> FALSE, readyState |-> 1, muted |-> FALSE, volume |-> 1]
\* a page without media elements in the document and nothing tracked
ObserverIdle ==
  /\ elements = [e \in Elems |-> IdleElement]
  /\ inDom = {}
  /\ audioElements = <<>>
  /\ isTabPlayingAudio = FALSE
  /\ events = <<>>
  /\ outbox = <<>>

\* ---- popup display
\* handleMessage of the popup, AUDIO_TABS_UPDATE branch: what one record of
\* the snapshot becomes in audioTabs
PopupTab(tab) ==
  LET t == AsUpdates(tab)
  IN  Spread(t, [id |-> GetOpt(t, "tabId"),
                 paused |-> Nullish(GetOpt(t, "paused"), {FALSE}),
                 volume |-> Nullish(GetOpt(t, "volume"), {0}),
                 isMuted |-> Nullish(GetOpt(t, "isMuted"), {FALSE})])

\* the badge the template shows for one entry of audioTabs
Badge(tab) ==
  IF GetOpt(tab, "isMuted") = {TRUE} /\ GetOpt(tab, "paused") # {TRUE} THEN "Muted"
  ELSE IF GetOpt(tab, "paused") = {TRUE} THEN "Paused"
  ELSE IF GetOpt(tab, "isAudible") = {TRUE} \/ GetOpt(tab, "hasContentAudio") = {TRUE}
       THEN "Playing"
       ELSE "Silent"

\* ------------------------------------------------------ specification --
\* a record as AUDIO_DETECTED leaves it for a tab that had none
StoredRecord(tabId) ==
  Persisted(Spread(DefaultState(tabId, 0),
                   [hasContentAudio |-> {TRUE}, url |-> {"u"}, title |-> {"t"},
                    volume |-> {1}]))
\* the records an earlier run can have left for a tab: after AUDIO_DETECTED,
\* after a following AUDIO_STOPPED or AUDIO_PAUSED, and after the host
\* reported a tab without a record audible
StoredRecords(tabId) ==
  LET detected == StoredRecord(tabId)
      one == [t \in {tabId} |-> detected]
      stopped == CHOOSE m \in PageMessages : m.type = "AUDIO_STOPPED"
      paused == CHOOSE m \in PageMessages : m.type = "AUDIO_PAUSED"
      tab == CHOOSE h \in PageHostTabs : TRUE
  IN  {detected,
       UpdateTabstate(one, tabId, StoppedUpdates(detected, stopped), 0)[tabId],
       UpdateTabstate(one, tabId, PausedUpdates(detected, paused), 0)[tabId],
       UpdateTabstate(EmptyObj, tabId,
                      UpdatedUpdates(tabId, Undefined, {TRUE}, tab, 0), 0)[tabId]}
\* what an earlier run of the extension can have left in storage
InitStores ==
  UNION {{f \in [S -> UNION {StoredRecords(t) : t \in Tabs}] :
            \A t \in S : f[t] \in StoredRecords(t)} : S \in SUBSET Tabs}
\* every stored record is as AUDIO_DETECTED left it
AllDetected == \A t \in DOMAIN tabStates : tabStates[t] = StoredRecord(t)

Init ==
  /\ tabStates \in InitStores
  /\ tasks = <<>>
  /\ now = 0
  /\ liveTabs \in SUBSET Tabs
  /\ liveTabs \cup DOMAIN tabStates = Tabs
  /\ closedTabs = {}
  /\ cleanup = [pc |-> "query", keys |-> KeysOf(tabStates), valid |-> {},
                 map |-> EmptyObj]
  /\ nHandlers = 0
  /\ popupPorts = <<>>
  /\ nPorts = 0
  /\ deadPorts = {}
  /\ lastBroadcast = [tabs |-> <<>>, ports |-> <<>>, socket |-> 0]
  /\ uncaught = ""
  /\ socket = 0
  /\ sockets = <<>>
  /\ status = "DISCONNECTED"
  /\ reconnectAttempts = 0
  /\ heartbeatInterval = FALSE
  /\ liveIntervals = 0
  /\ reconnectTimers = <<>>
  /\ lastPing = 0
  /\ lastDelay = 0
  /\ tauri = [volume |-> Undefined, muted |-> Undefined]
  /\ runtimeOut = EmptyObj
  /\ tabCmds = [t \in Tabs |-> EmptyObj]
  /\ ObserverIdle

\* the aggregator after a fresh install or with every open tab already
\* stored
InitAgg ==
  Init /\ liveTabs = Tabs /\ DOMAIN tabStates \in {{}, Tabs} /\ AllDetected
NextAgg ==
  \/ \E t \in Tabs, m \in PageMessages : OnMessage(t, m)
  \/ \E t \in Tabs, a \in Audibles, h \in PageHostTabs : OnUpdated(t, a, h)
  \/ \E t \in Tabs : OnRemoved(t)
  \/ \E i \in 1..MaxInFlight : PatchRead(i, 1)
  \/ \E i \in 1..MaxInFlight : StorageWrite(i)
  \/ \E i \in 1..MaxInFlight : SendTabsToPopupAndTauri(i)
  \/ CleanupQuery
  \/ CleanupRead
  \/ CleanupWrite
SpecAgg == InitAgg /\ [][NextAgg]_vars

\* descriptive metadata: pages that report audio before and after their
\* title is set, in tabs whose url and title the host may not pass on
MetaMessages ==
  {m \in Messages : m.type = "AUDIO_DETECTED" /\ m.volume = 0}
NextMeta ==
  \/ \E t \in Tabs, m \in MetaMessages : OnMessage(t, m)
  \/ \E t \in Tabs, a \in Audibles, h \in HostTabs : OnUpdated(t, a, h)
  \/ \E i \in 1..MaxInFlight : PatchRead(i, 1)
  \/ \E i \in 1..MaxInFlight : StorageWrite(i)
  \/ \E i \in 1..MaxInFlight : SendTabsToPopupAndTauri(i)
SpecMeta == InitAgg /\ [][NextMeta]_vars

\* a restart after tabs were closed while the extension was not running
InitStartup == Init /\ liveTabs # Tabs /\ AllDetected
NextStartup ==
  \/ \E t \in Tabs, m \in PageMessages : OnMessage(t, m)
  \/ \E t \in Tabs, a \in Audibles, h \in PageHostTabs : OnUpdated(t, a, h)
  \/ \E t \in Tabs : OnRemoved(t)
  \/ \E i \in 1..MaxInFlight : PatchRead(i, 1)
  \/ \E i \in 1..MaxInFlight : StorageWrite(i)
  \/ \E i \in 1..MaxInFlight : SendTabsToPopupAndTauri(i)
  \/ CleanupQuery
  \/ CleanupRead
  \/ CleanupWrite
SpecStartup == InitStartup /\ [][NextStartup]_vars

\* the bridge and the popup ports alone: no host or observer event arrives
\* and the storage does not change
InitBridge == Init /\ liveTabs = Tabs /\ DOMAIN tabStates = Tabs /\ AllDetected
NextBridge ==
  \/ OnConnect
  \/ \E p \in 1..MaxPorts : OnDisconnect(p)
  \/ \E p \in 1..MaxPorts : OnGetAudioTabs(p)
  \/ \E s \in 1..MaxSockets : SocketOpen(s)
  \/ \E s \in 1..MaxSockets, c \in CloseCodes : SocketClose(s, c)
  \/ \E s \in 1..MaxSockets, d \in SliderFrames : SocketMessage(s, d)
  \/ HeartbeatFire
  \/ \E k \in 1..MaxSockets : ReconnectTimerFire(k)
  \/ \E i \in 1..MaxInFlight : SendTabsToPopupAndTauri(i)
SpecBridge == InitBridge /\ [][NextBridge]_vars

\* what the runtime does without further outside events: suspended handlers
\* resume, a connecting socket opens or fails, timers fire
BridgeFairness ==
  /\ WF_vars(\E i \in 1..MaxInFlight : SendTabsToPopupAndTauri(i))
  /\ WF_vars(\E s \in 1..MaxSockets :
               s \in DOMAIN sockets /\ sockets[s].readyState = "CONNECTING"
               /\ (SocketOpen(s) \/ \E c \in CloseCodes : SocketClose(s, c)))
  /\ WF_vars(\E k \in 1..MaxSockets : ReconnectTimerFire(k))
SpecBridgeFair == SpecBridge /\ BridgeFairness

\* the bridge with a desktop application that accepts every connection: the
\* popup starts the first connection, an established session can end with
\* any code, and no connection attempt fails
NextReconnect ==
  \/ OnConnect
  \/ \E p \in 1..MaxPorts : socket = 0 /\ OnGetAudioTabs(p)
  \/ \E s \in 1..MaxSockets : SocketOpen(s)
  \/ \E s \in 1..MaxSockets, c \in CloseCodes :
       /\ s \in DOMAIN sockets
       /\ sockets[s].readyState # "CONNECTING"
       /\ SocketClose(s, c)
  \/ HeartbeatFire
  \/ \E k \in 1..MaxSockets : ReconnectTimerFire(k)
  \/ \E i \in 1..MaxInFlight : SendTabsToPopupAndTauri(i)
\* timers fire, a connecting socket opens, suspended handlers resume
ReconnectFairness ==
  /\ WF_vars(\E k \in 1..MaxSockets : ReconnectTimerFire(k))
  /\ WF_vars(\E s \in 1..MaxSockets : SocketOpen(s))
  /\ WF_vars(\E i \in 1..MaxInFlight : SendTabsToPopupAndTauri(i))
SpecReconnect == InitBridge /\ [][NextReconnect]_vars /\ ReconnectFairness

\* the backoff: the bridge after any number of consecutive failed attempts,
\* when the reconnect timer has just created the next socket; the sockets of
\* the failed attempts are closed and gone
InitBackoff ==
  /\ tabStates \in InitStores
  /\ DOMAIN tabStates = Tabs
  /\ AllDetected
  /\ tasks = <<>>
  /\ now = 0
  /\ liveTabs = Tabs
  /\ closedTabs = {}
  /\ cleanup = [pc |-> "query", keys |-> KeysOf(tabStates), valid |-> {},
                 map |-> EmptyObj]
  /\ nHandlers = 0
  /\ popupPorts = <<>>
  /\ nPorts = 0
  /\ deadPorts = {}
  /\ lastBroadcast = [tabs |-> <<>>, ports |-> <<>>, socket |-> 0]
  /\ uncaught = ""
  /\ socket = 1
  /\ sockets = <<[readyState |-> "CONNECTING", hooked |-> TRUE]>>
  /\ status = "DISCONNECTED"
  /\ reconnectAttempts \in 0..MaxAttempts
  /\ heartbeatInterval = FALSE
  /\ liveIntervals = 0
  /\ reconnectTimers = <<>>
  /\ lastPing = 0
  /\ lastDelay = IF reconnectAttempts = 0 THEN 0 ELSE ReconnectDelay(reconnectAttempts)
  /\ tauri = [volume |-> Undefined, muted |-> Undefined]
  /\ runtimeOut = EmptyObj
  /\ tabCmds = [t \in Tabs |-> EmptyObj]
  /\ ObserverIdle
NextBackoff ==
  \/ \E s \in 1..MaxSockets : SocketOpen(s)
  \/ \E s \in 1..MaxSockets, c \in CloseCodes : SocketClose(s, c)
  \/ HeartbeatFire
  \/ \E k \in 1..MaxSockets : ReconnectTimerFire(k)
  \/ \E i \in 1..MaxInFlight : SendTabsToPopupAndTauri(i)
SpecBackoff == InitBackoff /\ [][NextBackoff]_vars

\* local operation: host and observer events with the popup ports attached
\* and the bridge at rest in one of its states (never connected, connected,
\* waiting to reconnect); a storage write can fail
LocalBridges ==
  {[socket |-> 0, sockets |-> <<>>, status |-> "DISCONNECTED",
    reconnectAttempts |-> 0, heartbeatInterval |-> FALSE, liveIntervals |-> 0,
    reconnectTimers |-> <<>>, lastDelay |-> 0],
   [socket |-> 1, sockets |-> <<[readyState |-> "OPEN", hooked |-> TRUE]>>,
    status |-> "CONNECTED",
    reconnectAttempts |-> 0, heartbeatInterval |-> TRUE, liveIntervals |-> 1,
    reconnectTimers |-> <<>>, lastDelay |-> 0],
   [socket |-> 1, sockets |-> <<[readyState |-> "CLOSED", hooked |-> TRUE]>>,
    status |-> "RECONNECTING",
    reconnectAttempts |-> 1, heartbeatInterval |-> FALSE, liveIntervals |-> 0,
    reconnectTimers |-> <<[delay |-> ReconnectDelay(1), session |-> 1]>>,
    lastDelay |-> ReconnectDelay(1)]}
\* the events of a page that starts and stops playing
LocalMessages ==
  {m \in PageMessages : m.type \in {"AUDIO_DETECTED", "AUDIO_STOPPED"}}
InitLocal ==
  /\ tabStates \in InitStores
  /\ DOMAIN tabStates = Tabs
  /\ AllDetected
  /\ tasks = <<>>
  /\ now = 0
  /\ liveTabs = Tabs
  /\ closedTabs = {}
  /\ cleanup = [pc |-> "query", keys |-> KeysOf(tabStates), valid |-> {},
                 map |-> EmptyObj]
  /\ nHandlers = 0
  /\ popupPorts \in {[k \in 1..n |-> k] : n \in 0..MaxPorts}
  /\ nPorts = Len(popupPorts)
  /\ deadPorts = {}
  /\ lastBroadcast = [tabs |-> <<>>, ports |-> <<>>, socket |-> 0]
  /\ uncaught = ""
  /\ \E b \in LocalBridges :
       /\ socket = b.socket
       /\ sockets = b.sockets
       /\ status = b.status
       /\ reconnectAttempts = b.reconnectAttempts
       /\ heartbeatInterval = b.heartbeatInterval
       /\ liveIntervals = b.liveIntervals
       /\ reconnectTimers = b.reconnectTimers
       /\ lastDelay = b.lastDelay
  /\ lastPing = 0
  /\ tauri = [volume |-> Undefined, muted |-> Undefined]
  /\ runtimeOut = EmptyObj
  /\ tabCmds = [t \in Tabs |-> EmptyObj]
  /\ ObserverIdle
NextLocal ==
  \/ \E t \in Tabs, m \in LocalMessages : OnMessage(t, m)
  \/ \E t \in Tabs : OnRemoved(t)
  \/ \E i \in 1..MaxInFlight : PatchRead(i, 1)
  \/ \E i \in 1..MaxInFlight : StorageWrite(i)
  \/ \E i \in 1..MaxInFlight : StorageWriteFails(i)
  \/ \E i \in 1..MaxInFlight : SendTabsToPopupAndTauri(i)
SpecLocal == InitLocal /\ [][NextLocal]_vars

\* the fan-out of snapshots to popup ports and to the socket, over every
\* storage an earlier run can have left for the open tabs
InitFanout == Init /\ liveTabs = Tabs /\ DOMAIN tabStates = Tabs
NextFanout ==
  \/ OnConnect
  \/ \E p \in 1..MaxPorts : OnDisconnect(p)
  \/ \E p \in 1..MaxPorts : OnGetAudioTabs(p)
  \/ \E s \in 1..MaxSockets : SocketOpen(s)
  \/ \E i \in 1..MaxInFlight : SendTabsToPopupAndTauri(i)
SpecFanout == InitFanout /\ [][NextFanout]_vars

\* the port registry: MaxPopups popups are attached, they ask for the tabs
\* and go away while the bridge connects and broadcasts
InitDetach ==
  /\ tabStates \in InitStores
  /\ DOMAIN tabStates = Tabs
  /\ AllDetected
  /\ tasks = <<>>
  /\ now = 0
  /\ liveTabs = Tabs
  /\ closedTabs = {}
  /\ cleanup = [pc |-> "query", keys |-> KeysOf(tabStates), valid |-> {},
                 map |-> EmptyObj]
  /\ nHandlers = 0
  /\ popupPorts = [k \in 1..MaxPopups |-> k]
  /\ nPorts = MaxPopups
  /\ deadPorts = {}
  /\ lastBroadcast = [tabs |-> <<>>, ports |-> <<>>, socket |-> 0]
  /\ uncaught = ""
  /\ socket = 0
  /\ sockets = <<>>
  /\ status = "DISCONNECTED"
  /\ reconnectAttempts = 0
  /\ heartbeatInterval = FALSE
  /\ liveIntervals = 0
  /\ reconnectTimers = <<>>
  /\ lastPing = 0
  /\ lastDelay = 0
  /\ tauri = [volume |-> Undefined, muted |-> Undefined]
  /\ runtimeOut = EmptyObj
  /\ tabCmds = [t \in Tabs |-> EmptyObj]
  /\ ObserverIdle
NextDetach ==
  \/ \E p \in 1..MaxPopups : OnDisconnect(p)
  \/ \E p \in 1..MaxPopups : OnGetAudioTabs(p)
  \/ \E s \in 1..MaxSockets : SocketOpen(s)
  \/ \E s \in 1..MaxSockets, c \in CloseCodes : SocketClose(s, c)
  \/ \E i \in 1..MaxInFlight : SendTabsToPopupAndTauri(i)
SpecDetach == InitDetach /\ [][NextDetach]_vars

\* the same with popups that close while a broadcast is pending: the
\* disconnect event of a closed popup is still queued
NextPorts ==
  \/ NextDetach
  \/ \E p \in 1..MaxPopups : PortCloses(p)
SpecPorts == InitDetach /\ [][NextPorts]_vars

\* the background with every tab stored as an earlier run left it, nothing
\* in flight and no bridge
BackgroundQuiet ==
  /\ tabStates \in InitStores
  /\ DOMAIN tabStates = Tabs
  /\ tasks = <<>>
  /\ now = 0
  /\ liveTabs = Tabs
  /\ closedTabs = {}
  /\ cleanup = [pc |-> "query", keys |-> KeysOf(tabStates), valid |-> {},
                 map |-> EmptyObj]
  /\ nHandlers = 0
  /\ popupPorts = <<>>
  /\ nPorts = 0
  /\ deadPorts = {}
  /\ lastBroadcast = [tabs |-> <<>>, ports |-> <<>>, socket |-> 0]
  /\ uncaught = ""
  /\ socket = 0
  /\ sockets = <<>>
  /\ status = "DISCONNECTED"
  /\ reconnectAttempts = 0
  /\ heartbeatInterval = FALSE
  /\ liveIntervals = 0
  /\ reconnectTimers = <<>>
  /\ lastPing = 0
  /\ lastDelay = 0
  /\ tauri = [volume |-> Undefined, muted |-> Undefined]
  /\ runtimeOut = EmptyObj
  /\ tabCmds = [t \in Tabs |-> EmptyObj]
\* the same with every record as AUDIO_DETECTED left it
BackgroundAtRest == BackgroundQuiet /\ AllDetected

\* the content script alone, started in a page whose elements may already
\* be playing and may or may not be in the document; an element is paused
\* when the media events queued before have been dispatched
StartElements == {[IdleElement EXCEPT !.paused = p] : p \in BOOLEAN}
InitObserver ==
  /\ BackgroundAtRest
  /\ elements \in [Elems -> StartElements]
  /\ inDom \in SUBSET Elems
  /\ audioElements = <<>>
  /\ isTabPlayingAudio = FALSE
  /\ events = <<>>
  /\ outbox = <<>>
\* what a page lets the browser fire when an element starts playing
PlayFirings == {<<>>, <<"play">>, <<"play", "playing">>}
NextObserver ==
  \/ ScanForMediaElements
  \/ PeriodicCheck
  \/ \E e \in Elems : CreateMediaElementSource(e)
  \/ DispatchEvent
  \/ \E e \in Elems, f \in PlayFirings : ElementPlays(e, f)
  \/ \E e \in Elems : events = <<>> /\ ElementPauses(e)
  \/ \E e \in Elems : ElementInserted(e)
  \/ MessageLeaves
SpecObserver == InitObserver /\ [][NextObserver]_vars
\* a page whose elements are in the document, playing or paused, unmuted at
\* full volume, unmuted at volume 0 or muted at full volume
PayloadElements ==
  {[IdleElement EXCEPT !.paused = p, !.muted = mv[1], !.volume = mv[2]] :
     p \in BOOLEAN, mv \in {<<FALSE, 1>>, <<FALSE, 0>>, <<TRUE, 1>>}}
InitPayload ==
  /\ BackgroundAtRest
  /\ elements \in [Elems -> PayloadElements]
  /\ inDom = Elems
  /\ audioElements = <<>>
  /\ isTabPlayingAudio = FALSE
  /\ events = <<>>
  /\ outbox = <<>>
NextPayload ==
  \/ ScanForMediaElements
  \/ PeriodicCheck
  \/ DispatchEvent
  \/ \E e \in Elems, f \in PlayFirings : events = <<>> /\ ElementPlays(e, f)
  \/ \E e \in Elems : events = <<>> /\ ElementPauses(e)
  \/ MessageLeaves
SpecPayload == InitPayload /\ [][NextPayload]_vars

\* the same page with elements that play to their end
NextEnded ==
  \/ NextObserver
  \/ \E e \in Elems, p \in BOOLEAN : events = <<>> /\ ElementEnds(e, p)
SpecEnded == InitObserver /\ [][NextEnded]_vars
\* the interval fires, queued events are dispatched, messages are sent
ObserverFairness ==
  /\ WF_vars(PeriodicCheck)
  /\ WF_vars(DispatchEvent)
  /\ WF_vars(MessageLeaves)
SpecObserverFair == SpecObserver /\ ObserverFairness

\* the popup controls the page of tab ObsTab: its elements are in the
\* document at any volume, muted or not; the popup sends a command when the
\* one before has been received
ControlElements ==
  {[IdleElement EXCEPT !.paused = FALSE, !.muted = m, !.volume = v] :
     m \in BOOLEAN, v \in Volumes}
InitControl ==
  /\ BackgroundAtRest
  /\ elements \in [Elems -> ControlElements]
  /\ inDom = Elems
  /\ audioElements = <<>>
  /\ isTabPlayingAudio = FALSE
  /\ events = <<>>
  /\ outbox = <<>>
NextControl ==
  \/ OnConnect
  \/ \E v \in Volumes : tabCmds[ObsTab] = EmptyObj /\ ChangeVolume(ObsTab, v)
  \/ \E m \in BOOLEAN, v \in {Undefined, {1}} :
       tabCmds[ObsTab] = EmptyObj /\ SetMute(ObsTab, m, v)
  \/ OnCommand
  \/ ScanForMediaElements
  \/ DispatchEvent
  \/ MessageLeaves
SpecControl == InitControl /\ [][NextControl]_vars

\* the popup, the page of tab ObsTab and the aggregator together: the
\* elements are in the document, playing or paused, at any volume; the
\* record of the tab is one an earlier page of the tab left
LoopElements ==
  {[IdleElement EXCEPT !.paused = p, !.muted = m, !.volume = v] :
     p \in BOOLEAN, m \in BOOLEAN, v \in Volumes}
InitLoop ==
  /\ BackgroundQuiet
  /\ elements \in [Elems -> LoopElements]
  /\ inDom = Elems
  /\ audioElements = <<>>
  /\ isTabPlayingAudio = FALSE
  /\ events = <<>>
  /\ outbox = <<>>
NextLoop ==
  \/ OnConnect
  \/ \E v \in Volumes : tabCmds[ObsTab] = EmptyObj /\ ChangeVolume(ObsTab, v)
  \/ OnCommand
  \/ ScanForMediaElements
  \/ DispatchEvent
  \/ ObserverMessageArrives
  \/ \E i \in 1..MaxInFlight : PatchRead(i, 1)
  \/ \E i \in 1..MaxInFlight : StorageWrite(i)
  \/ \E i \in 1..MaxInFlight : SendTabsToPopupAndTauri(i)
\* a message sent is received, an event queued is dispatched, a storage
\* call resolves
LoopFairness ==
  /\ WF_vars(OnCommand)
  /\ WF_vars(ScanForMediaElements)
  /\ WF_vars(DispatchEvent)
  /\ WF_vars(ObserverMessageArrives)
  /\ WF_vars(\E i \in 1..MaxInFlight : PatchRead(i, 1))
  /\ WF_vars(\E i \in 1..MaxInFlight : StorageWrite(i))
  /\ WF_vars(\E i \in 1..MaxInFlight : SendTabsToPopupAndTauri(i))
SpecLoop == InitLoop /\ [][NextLoop]_vars /\ LoopFairness

\* AUDIO_DETECTED of elements unmuted, muted and at volume 0, and of a
\* sender that leaves muted and volume out, all from tab ObsTab, over every
\* record an earlier run can have left for that tab
DetectedMessages ==
  {[type |-> "AUDIO_DETECTED", url |-> "u", title |-> "t"]}
  \cup
  {UpdateAudioStatus("AUDIO_DETECTED", ElementData([IdleElement EXCEPT !.muted = m, !.volume = v])) :
     m \in BOOLEAN, v \in Volumes}
InitMerge ==
  /\ Init
  /\ liveTabs = Tabs
  /\ \A t \in Tabs \ {ObsTab} : t \in DOMAIN tabStates /\ tabStates[t] = StoredRecord(t)
NextMerge ==
  \/ \E m \in DetectedMessages : OnMessage(ObsTab, m)
  \/ \E i \in 1..MaxInFlight : PatchRead(i, 1)
  \/ \E i \in 1..MaxInFlight : StorageWrite(i)
  \/ \E i \in 1..MaxInFlight : SendTabsToPopupAndTauri(i)
SpecMerge == InitMerge /\ [][NextMerge]_vars

\* the aggregator with the clock at its resolution: Date.now() counts
\* milliseconds, so two reads of it can give the same value
ClockTicks == {0, 1}
NextStamp ==
  \/ \E t \in Tabs, m \in PageMessages : OnMessage(t, m)
  \/ \E i \in 1..MaxInFlight, e \in ClockTicks : PatchRead(i, e)
  \/ \E i \in 1..MaxInFlight : StorageWrite(i)
  \/ \E i \in 1..MaxInFlight : SendTabsToPopupAndTauri(i)
SpecStamp == InitAgg /\ [][NextStamp]_vars

\* commands: frames from the desktop application and gestures in the popup
NextCmd ==
  \/ OnConnect
  \/ \E p \in 1..MaxPorts : OnGetAudioTabs(p)
  \/ \E s \in 1..MaxSockets : SocketOpen(s)
  \/ \E s \in 1..MaxSockets, d \in RawFrames : SocketMessage(s, d)
  \/ \E t \in Tabs, v \in Volumes : ChangeVolume(t, v)
  \/ \E t \in Tabs, m \in BOOLEAN, v \in {Undefined, {1}} : SetMute(t, m, v)
  \/ \E i \in 1..MaxInFlight : SendTabsToPopupAndTauri(i)
SpecCmd == InitBridge /\ [][NextCmd]_vars

\* ------------------------------------------------------------- claims --
TabAudioStateFields ==
  {"tabId", "url", "title", "isAudible", "hasContentAudio", "is_muted",
   "paused", "volume", "lastUpdate"}
IsSet(obj, f) == Get(obj, f) = {TRUE}
\* the map an uninterrupted read-modify-write of the task would store
AtomicResult(task, map) ==
  IF task.op = "patch"
  THEN UpdateTabstate(map, task.tabId, task.updates,
                      task.map[task.tabId].lastUpdate)
  ELSE DeleteTabState(map, task.tabId)

\* C1: aggregator mutations are serialized: no handler stores a map it read
\* before another handler's write, so every write equals what the same patch
\* or removal gives on the mapping persisted at the time of the write.
C1_SerializedMutations ==
  [][\A i \in 1..MaxInFlight :
       StorageWrite(i) => tabStates' = AtomicResult(tasks[i], tabStates)]_vars

\* C2: once tabs.onRemoved was delivered for a tab and no handler is in
\* flight, storage has no record under that tab id and the last snapshot
\* posted has no record of that tab.
C2_ClosedTabForgotten ==
  \A t \in closedTabs :
    tasks = <<>> =>
      /\ t \notin DOMAIN tabStates
      /\ \A k \in DOMAIN lastBroadcast.tabs :
           Get(lastBroadcast.tabs[k], "tabId") # {t}

\* C3: the map updateTabstate hands to setValue has the keys it read plus
\* tabId, the same record under every other key, the same value (or absence)
\* for every field of tabId's record that updates does not name, and
\* lastUpdate set to the current time.
C3_PatchFrame ==
  [][\A i \in 1..MaxInFlight :
       PatchRead(i, 1) =>
         LET t == tasks[i].tabId
             new == tasks'[i].map
             old == IF t \in DOMAIN tabStates THEN tabStates[t] ELSE EmptyObj
         IN  /\ DOMAIN new = DOMAIN tabStates \cup {t}
             /\ \A o \in DOMAIN tabStates \ {t} : new[o] = tabStates[o]
             /\ \A f \in TabAudioStateFields \ (DOMAIN tasks[i].updates \cup {"lastUpdate"}) :
                  Get(new[t], f) = Get(old, f)
             /\ new[t].lastUpdate = now']_vars

\* C3 witness: a patch that does not name hasContentAudio is merged over a
\* stored record that has it set, and is about to be written.
C3_Witness ==
  \E i \in DOMAIN tasks :
    /\ tasks[i].op = "patch" /\ tasks[i].pc = "write"
    /\ "hasContentAudio" \notin DOMAIN tasks[i].updates
    /\ tasks[i].tabId \in DOMAIN tabStates
    /\ IsSet(tabStates[tasks[i].tabId], "hasContentAudio")
    /\ IsSet(tasks[i].map[tasks[i].tabId], "hasContentAudio")
    /\ IsSet(tasks[i].map[tasks[i].tabId], "isAudible")

\* C4: every snapshot sendTabsToPopupAndTauri posts holds exactly the stored
\* records in which isAudible, hasContentAudio or paused is true, one entry
\* per such tab, and goes to every port in popupPorts and to the socket when
\* it is open.
C4_SnapshotIsActiveFilter ==
  [][\A i \in 1..MaxInFlight :
       SendTabsToPopupAndTauri(i) =>
         LET snap == lastBroadcast'.tabs
             active == {t \in DOMAIN tabStates :
                          \/ IsSet(tabStates[t], "isAudible")
                          \/ IsSet(tabStates[t], "hasContentAudio")
                          \/ IsSet(tabStates[t], "paused")}
         IN  /\ Len(snap) = Cardinality(active)
             /\ \A t \in active : \E k \in DOMAIN snap : snap[k] = tabStates[t]
             /\ \A k \in DOMAIN snap : \E t \in active : snap[k] = tabStates[t]
             /\ lastBroadcast'.ports = popupPorts
             /\ lastBroadcast'.socket = IF SocketIsOpen THEN socket ELSE 0]_vars

\* C4 witness: a snapshot went to a popup port and to the open socket with
\* one stored record in it and another stored record, whose three flags are
\* false, left out.
C4_Witness ==
  /\ tasks = <<>>
  /\ lastBroadcast.ports # <<>>
  /\ lastBroadcast.socket # 0
  /\ Len(lastBroadcast.tabs) = 1
  /\ \E t \in DOMAIN tabStates : lastBroadcast.tabs[1] = tabStates[t]
  /\ \E t \in DOMAIN tabStates :
       /\ {"isAudible", "hasContentAudio", "paused"} \subseteq DOMAIN tabStates[t]
       /\ ~tabStates[t].isAudible
       /\ ~tabStates[t].hasContentAudio
       /\ ~tabStates[t].paused

\* C5: when cleanupStaleTabs has finished and no handler is in flight, no
\* tab outside the queried tab list has a record, and each write of the
\* cleanup removes one key from the mapping persisted at that time and
\* changes nothing else.
C5_CleanupExact ==
  [][/\ cleanup'.pc = "done" /\ tasks' = <<>> =>
          \A t \in Tabs \ cleanup'.valid : t \notin DOMAIN tabStates'
     /\ CleanupWrite =>
          tabStates' = DeleteTabState(tabStates, Head(cleanup.keys))]_vars

BridgeState ==
  <<status, reconnectAttempts, heartbeatInterval, liveIntervals, reconnectTimers>>

\* C6: only the socket held in the socket variable has callbacks, and an
\* open, close, error or message event of any other socket leaves status,
\* reconnectAttempts, the heartbeat timer and the reconnect timers alone.
C6_StaleSocketInert ==
  [][/\ \A s \in DOMAIN sockets' : sockets'[s].hooked => s = socket'
     /\ \A s \in 1..MaxSockets :
          (/\ s # socket
           /\ \/ SocketOpen(s)
              \/ \E c \in CloseCodes : SocketClose(s, c)
              \/ \E d \in SliderFrames : SocketMessage(s, d))
          => UNCHANGED BridgeState]_vars

\* C6 witness: the first socket was replaced while its heartbeat was live,
\* its close event has since been delivered, and the heartbeat is untouched
\* while the second socket is still connecting.
C6_Witness ==
  /\ socket = 2
  /\ sockets[1].readyState = "CLOSED"
  /\ sockets[2].readyState = "CONNECTING"
  /\ heartbeatInterval
  /\ status = "DISCONNECTED"

\* C7: a call of connect() leaves no reconnect timer pending, and a reconnect
\* timer only fires while the session that scheduled it is the current one.
C7_ConnectCancelsTimers ==
  [][/\ socket' # socket => reconnectTimers' = <<>>
     /\ \A k \in 1..MaxSockets :
          ReconnectTimerFire(k) => reconnectTimers[k].session = socket]_vars

C10_FrameRelayed ==
  [][\A s \in 1..MaxSockets, d \in Frames :
       (SocketMessage(s, d) /\ sockets[s].hooked
        /\ DOMAIN d \cap {"setVolume", "setMute"} # {}) =>
         LET cmd == IF "setVolume" \in DOMAIN d THEN d.setVolume ELSE d.setMute
         IN  /\ IF "setVolume" \in DOMAIN d
                THEN /\ Get(tabCmds'[cmd.tabId], "type") = {"UI_VOLUME_CHANGE"}
                     /\ Get(tabCmds'[cmd.tabId], "volume") = {cmd.volume}
                ELSE /\ Get(tabCmds'[cmd.tabId], "type") = {"UI_MUTE_SET"}
                     /\ Get(tabCmds'[cmd.tabId], "isMuted") = {cmd.mute}
             /\ \A o \in Tabs \ {cmd.tabId} : tabCmds'[o] = tabCmds[o]]_vars

\* C11: when socket.onmessage handles a frame that is not JSON, or that has
\* neither setVolume nor setMute, nothing is sent to the popup or to a tab,
\* no exception leaves the handler, and the socket, status,
\* reconnectAttempts and the timers stay as they are.
C11_MalformedDropped ==
  [][\A s \in 1..MaxSockets, d \in RawFrames :
       (/\ SocketMessage(s, d)
        /\ sockets[s].hooked
        /\ (~Parses(d) \/ DOMAIN d \cap {"setVolume", "setMute"} = {}))
       => /\ runtimeOut' = runtimeOut
          /\ tabCmds' = tabCmds
          /\ lastBroadcast' = lastBroadcast
          /\ uncaught' = uncaught
          /\ UNCHANGED <<socket, sockets, BridgeState>>]_vars

\* C12: with a desktop application that accepts every connection, a status
\* of RECONNECTING is always followed by CONNECTED without the popup asking
\* (as long as the run may still create a socket).
C12_AutoReconnect ==
  (status = "RECONNECTING" /\ Len(sockets) < MaxSockets) ~> (status = "CONNECTED")

\* C12 witness: the first session was lost, the reconnect timer created the
\* second socket and it is open with status CONNECTED.
C12_Witness ==
  /\ status = "CONNECTED"
  /\ socket = 2
  /\ sockets[1].readyState = "CLOSED"
  /\ sockets[2].readyState = "OPEN"
  /\ reconnectAttempts = 0
  /\ reconnectTimers = <<>>

\* C13: a close with code 1000 or 1001 on the current socket sets
\* DISCONNECTED, resets reconnectAttempts, clears the heartbeat and schedules
\* no reconnect; while the bridge rests after such a close no reconnect timer
\* calls connect().
C13_CleanCloseStops ==
  [][/\ \A s \in 1..MaxSockets, c \in {1000, 1001} :
          SocketClose(s, c) /\ sockets[s].hooked =>
            /\ status' = "DISCONNECTED"
            /\ reconnectAttempts' = 0
            /\ ~heartbeatInterval'
            /\ reconnectTimers' = reconnectTimers
     /\ \A k \in 1..MaxSockets :
          ReconnectTimerFire(k) =>
            ~(/\ status = "DISCONNECTED"
              /\ socket # 0
              /\ sockets[socket].hooked
              /\ sockets[socket].readyState = "CLOSED")]_vars

\* C14: a close with any other code on the current socket sets RECONNECTING,
\* adds exactly one to reconnectAttempts and schedules exactly one reconnect
\* timer, leaving the timers already pending as they were.
C14_NonCleanCloseRetries ==
  [][\A s \in 1..MaxSockets, c \in CloseCodes \ {1000, 1001} :
       SocketClose(s, c) /\ sockets[s].hooked =>
         /\ s = socket
         /\ status' = "RECONNECTING"
         /\ reconnectAttempts' = reconnectAttempts + 1
         /\ Len(reconnectTimers') = Len(reconnectTimers) + 1
         /\ SubSeq(reconnectTimers', 1, Len(reconnectTimers)) = reconnectTimers
         /\ reconnectTimers'[Len(reconnectTimers')].session = s]_vars

\* C14 witness: the second consecutive failure has been handled.
C14_Witness ==
  /\ status = "RECONNECTING"
  /\ socket = 2
  /\ reconnectAttempts = 2
  /\ reconnectTimers = <<[delay |-> 4000, session |-> 2]>>

\* C15: on a non-clean close that follows another with no open in between,
\* the scheduled delay is larger than the previous one while that was below
\* the 30000 ms ceiling and equals the ceiling afterwards; no scheduled delay
\* exceeds the ceiling.
C15_BackoffMonotoneCapped ==
  [][\A s \in 1..MaxSockets, c \in CloseCodes \ {1000, 1001} :
       SocketClose(s, c) /\ sockets[s].hooked =>
         /\ reconnectTimers'[Len(reconnectTimers')].delay = lastDelay'
         /\ lastDelay' <= MaxDelay
         /\ lastDelay # 0 =>
              IF lastDelay < MaxDelay THEN lastDelay' > lastDelay
                                     ELSE lastDelay' = MaxDelay]_vars

\* C15 witness: the sixth consecutive failure scheduled the ceiling again.
C15_Witness ==
  /\ reconnectAttempts = 6
  /\ sockets[1].readyState = "CLOSED"
  /\ lastDelay = MaxDelay
  /\ \E k \in DOMAIN reconnectTimers : reconnectTimers[k].delay = MaxDelay

\* the handlers suspended before sendTabsToPopupAndTauri
PendingSends == Cardinality({i \in DOMAIN tasks : tasks[i].pc = "send"})

\* C16: a handler whose patch or removal was persisted goes on to the
\* broadcast, the broadcast can run whatever the bridge status is, and when
\* it runs it posts to every attached popup port, sends on the socket only if
\* that is open, and ends without an error.
C16_LocalFanout ==
  [][/\ \A i \in 1..MaxInFlight :
          StorageWrite(i) => i \in DOMAIN tasks' /\ tasks'[i].pc = "send"
     /\ \A i \in DOMAIN tasks :
          tasks[i].pc = "send" => ENABLED SendTabsToPopupAndTauri(i)
     /\ PendingSends' < PendingSends =>
          /\ lastBroadcast'.ports = popupPorts
          /\ lastBroadcast'.socket = (IF SocketIsOpen THEN socket ELSE 0)
          /\ uncaught' = uncaught]_vars

\* C16 witness: a removal was persisted and broadcast to the attached port
\* while the bridge was waiting to reconnect.
C16_Witness ==
  /\ status = "RECONNECTING"
  /\ DOMAIN tabStates # Tabs
  /\ lastBroadcast.ports = popupPorts
  /\ popupPorts # <<>>
  /\ Len(lastBroadcast.tabs) = Cardinality(DOMAIN tabStates)
  /\ lastBroadcast.socket = 0
  /\ tasks = <<>>
  /\ uncaught = ""

\* C17: a storage write that fails leaves the persisted mapping as it was and
\* ends the handler before the broadcast; the mapping changes only by a write
\* that succeeds, and every snapshot sent is the active filter of the mapping
\* in storage.
C17_FailedWriteNotApplied ==
  [][/\ \A i \in 1..MaxInFlight :
          StorageWriteFails(i) =>
            /\ tabStates' = tabStates
            /\ lastBroadcast' = lastBroadcast
            /\ PendingSends' = PendingSends
            /\ Len(tasks') = Len(tasks) - 1
     /\ tabStates' # tabStates =>
          \E i \in DOMAIN tasks : StorageWrite(i) /\ tabStates' = tasks[i].map
     /\ \A i \in 1..MaxInFlight :
          PatchRead(i, 1) =>
            tasks'[i].map = UpdateTabstate(tabStates, tasks[i].tabId,
                                           tasks[i].updates, now')
     /\ lastBroadcast' # lastBroadcast =>
          lastBroadcast'.tabs = AudioTabs(tabStates)]_vars

\* C17 witness: the write of the only mutation so far failed; the mapping is
\* the initial one and nothing was broadcast.
C17_Witness ==
  /\ uncaught = "setValue"
  /\ nHandlers = 1
  /\ tasks = <<>>
  /\ DOMAIN tabStates = Tabs
  /\ AllDetected
  /\ lastBroadcast = [tabs |-> <<>>, ports |-> <<>>, socket |-> 0]

\* C18: a broadcast during which the postMessage of a closed port fails
\* still posts to every other attached port and sends on the open socket,
\* and the handler raises no error.
C18_FailedPortTolerated ==
  [][\A i \in 1..MaxInFlight :
       SendTabsToPopupAndTauri(i) =>
         /\ Range(popupPorts) \ deadPorts \subseteq Range(lastBroadcast'.ports)
         /\ SocketIsOpen => lastBroadcast'.socket = socket
         /\ uncaught' = uncaught]_vars

\* C19: the disconnect listener removes its port and no other from
\* popupPorts, a removed port is not registered again, and every broadcast
\* posts to exactly the ports in popupPorts.
C19_DetachedPortSkipped ==
  [][/\ \A p \in 1..MaxPopups :
          OnDisconnect(p) =>
            popupPorts' = SelectSeq(popupPorts, LAMBDA q : q # p)
     /\ Range(popupPorts') \subseteq Range(popupPorts)
     /\ PendingSends' < PendingSends => lastBroadcast'.ports = popupPorts]_vars

\* C19 witness: the first popup has gone and a broadcast after that went to
\* the second popup alone.
C19_Witness ==
  /\ popupPorts = <<2>>
  /\ lastBroadcast.ports = <<2>>
  /\ lastBroadcast.socket # 0

\* field f of record r is present and not the empty string
Known(r, f) == f \in DOMAIN r /\ r[f] # ""

\* C20: in a record that stays in storage, a url or title that is not empty
\* is not empty after any step.
C20_MetadataKept ==
  [][\A t \in DOMAIN tabStates \cap DOMAIN tabStates' :
       /\ Known(tabStates[t], "url") => Known(tabStates'[t], "url")
       /\ Known(tabStates[t], "title") => Known(tabStates'[t], "title")]_vars

\* the messages a step of the content script has sent
Emitted == SubSeq(outbox', Len(outbox) + 1, Len(outbox'))
Tracked == {audioElements[k] : k \in DOMAIN audioElements}
\* the first queued event is a pause of tracked element e
PauseOf(e) ==
  /\ events # <<>>
  /\ Head(events) = [elem |-> e, type |-> "pause"]
  /\ e \in Tracked

C22_OtherStillPlaying ==
  [][\A e \in Elems :
       (DispatchEvent /\ PauseOf(e) /\ isTabPlayingAudio
        /\ \E o \in Tracked \ {e} : IsPlaying(elements[o])) =>
         /\ isTabPlayingAudio'
         /\ \A k \in DOMAIN Emitted :
              /\ Emitted[k].type \notin {"AUDIO_PAUSED", "AUDIO_STOPPED"}
              /\ Emitted[k].type = "AUDIO_DETECTED"
              /\ LET u == DetectedUpdates(ObsTab, Get(tabStates, ObsTab),
                                          Emitted[k], now)
                 IN  u.hasContentAudio = {TRUE} /\ u.paused = {FALSE}]_vars

\* C22 witness: both elements are tracked, one is paused and the other
\* plays, the pause event has been dispatched and the tab still counts as
\* playing.
C22_Witness ==
  /\ Len(audioElements) = 2
  /\ elements[1].paused
  /\ IsPlaying(elements[2])
  /\ isTabPlayingAudio
  /\ events = <<>>
  /\ outbox # <<>>
  /\ outbox[Len(outbox)].type = "AUDIO_DETECTED"

\* C23: a tracked element that is playing is eventually reported:
\* isTabPlayingAudio becomes true (or the element stops playing).
C23_PlayingReported ==
  \A e \in Elems :
    (e \in Tracked /\ IsPlaying(elements[e]))
      ~> (isTabPlayingAudio \/ ~IsPlaying(elements[e]))

\* the content script receives a UI_MUTE_SET of the popup
MuteCommand == OnCommand /\ tabCmds[ObsTab].type = "UI_MUTE_SET"

\* C24: when the content script has handled a mute request of the popup,
\* every tracked element is muted; when it has handled an unmute request,
\* every tracked element whose volume is above 0 is not muted.
C24_MuteApplied ==
  [][MuteCommand =>
       \A e \in Tracked :
         /\ tabCmds[ObsTab].isMuted => elements'[e].muted
         /\ (~tabCmds[ObsTab].isMuted /\ elements'[e].volume > 0) =>
              ~elements'[e].muted]_vars

\* C25: when the content script has handled an unmute request that carries
\* the captured volume v > 0, every tracked element that was at volume 0 is
\* at volume v and is reported as not muted.
C25_UnmuteRestoresVolume ==
  [][(/\ MuteCommand
      /\ ~tabCmds[ObsTab].isMuted
      /\ tabCmds[ObsTab].initialVolume = {1}) =>
       \A e \in Tracked :
         elements[e].volume = 0 =>
           /\ elements'[e].volume = 1
           /\ ElementData(elements'[e]) = [muted |-> FALSE, volume |-> 1]]_vars

\* a UI_VOLUME_CHANGE to volume v is about to be applied in tab ObsTab, which
\* has a record and tracked elements, and the run has room for the handlers
\* of the volumechange events the command can cause
VolumeCommanded(v) ==
  /\ tabCmds[ObsTab] = [type |-> "UI_VOLUME_CHANGE", volume |-> v]
  /\ ObsTab \in DOMAIN tabStates
  /\ audioElements # <<>>
  /\ nHandlers + Len(outbox) + Len(events) + Len(audioElements) <= MaxHandlers
\* the record of tab ObsTab has volume v and the muted state of a tracked
\* element
LoopClosed(v) ==
  /\ ObsTab \in DOMAIN tabStates
  /\ Get(tabStates[ObsTab], "volume") = {v}
  /\ \E e \in Tracked :
       Get(tabStates[ObsTab], "is_muted") = {elements[e].muted \/ v = 0}

\* C26: after UI_VOLUME_CHANGE{v} is applied in a tab that has a record and a
\* tracked element, the persisted record of the tab eventually has volume v
\* and is_muted = (element muted or v = 0), unless another volume is
\* commanded first.
C26_CommandLoopCloses ==
  \A v \in Volumes :
    VolumeCommanded(v) ~>
      (LoopClosed(v) \/ (tabCmds[ObsTab] # EmptyObj /\ tabCmds[ObsTab].volume # v))

\* every message of the content script has been handled to the end
Settled == tasks = <<>> /\ outbox = <<>> /\ events = <<>>

\* C27: events of one tab's observer are applied in emission order, so the
\* record reflects the latest one: when the content script holds the tab to
\* be playing, the last of its AUDIO_DETECTED, AUDIO_STOPPED and AUDIO_PAUSED
\* is an AUDIO_DETECTED, and once every handler has finished the record has
\* hasContentAudio = true and paused = false.
C27_LatestEventReflected ==
  (Settled /\ isTabPlayingAudio) =>
    /\ ObsTab \in DOMAIN tabStates
    /\ IsSet(tabStates[ObsTab], "hasContentAudio")
    /\ Get(tabStates[ObsTab], "paused") = {FALSE}

\* field f of the record of tab t as AUDIO_DETECTED has to leave it: the
\* message's value under key k, or the stored value when the message has
\* none, or the default of a tab without a record
MergedField(t, m, k, f, default) ==
  IF k \in DOMAIN m THEN m[k]
  ELSE IF t \in DOMAIN tabStates THEN tabStates[t][f] ELSE default

\* C28: the handler of AUDIO_DETECTED{muted m, volume v} hands updateTabstate
\* hasContentAudio = true, paused = false, is_muted = m and volume = v, a
\* false or 0 of the message included, and the stored value only for a field
\* the message lacks; the record its setValue stores has these values and
\* passes the filter of the snapshot.
C28_DetectedMerge ==
  [][/\ \A t \in Tabs, m \in DetectedMessages :
          OnMessage(t, m) =>
            LET u == tasks'[Len(tasks')].updates
            IN  /\ u.hasContentAudio = {TRUE}
                /\ u.paused = {FALSE}
                /\ u.is_muted = {MergedField(t, m, "muted", "is_muted", FALSE)}
                /\ u.volume = {MergedField(t, m, "volume", "volume", 0)}
     /\ \A i \in 1..MaxInFlight :
          (StorageWrite(i) /\ tasks[i].op = "patch") =>
            LET t == tasks[i].tabId
                u == tasks[i].updates
            IN  /\ tabStates'[t].hasContentAudio
                /\ ~tabStates'[t].paused
                /\ tabStates'[t].is_muted = The(u.is_muted)
                /\ tabStates'[t].volume = The(u.volume)
                /\ \E k \in DOMAIN AudioTabs(tabStates') :
                     AudioTabs(tabStates')[k] = tabStates'[t]]_vars
\* a handler is about to store an unmuted record at volume 1 over a muted
\* one at volume 0, or a record at volume 0 over one at volume 1
C28_Witness ==
  \E i \in DOMAIN tasks :
    /\ tasks[i].pc = "write" /\ tasks[i].op = "patch"
    /\ tasks[i].tabId \in DOMAIN tabStates
    /\ LET old == tabStates[tasks[i].tabId]
           new == tasks[i].map[tasks[i].tabId]
       IN  /\ old.is_muted /\ old.volume = 0
           /\ ~new.is_muted /\ new.volume = 1
           /\ new.hasContentAudio /\ ~new.paused

\* the classification of a record by its own fields, muted and not paused
\* first, then paused, then audible or observed, then silent
Classified(rec) ==
  IF Truthy(rec, "is_muted") /\ ~Truthy(rec, "paused") THEN "Muted"
  ELSE IF Truthy(rec, "paused") THEN "Paused"
  ELSE IF Truthy(rec, "isAudible") \/ Truthy(rec, "hasContentAudio") THEN "Playing"
  ELSE "Silent"

\* C29: the badge the popup shows for a record of the snapshot it received
\* follows the precedence (muted and not paused) > paused > (isAudible or
\* hasContentAudio) > silent over the record's muted flag, paused flag,
\* isAudible and hasContentAudio.
C29_BadgePrecedence ==
  lastBroadcast.ports # <<>> =>
    \A k \in DOMAIN lastBroadcast.tabs :
      Badge(PopupTab(lastBroadcast.tabs[k])) = Classified(lastBroadcast.tabs[k])

\* C30: a step that changes status sends SERVER_STATUS with the new status,
\* and a SERVER_STATUS sent by any step carries the status the step leaves.
C30_StatusReported ==
  [][/\ status' # status =>
          runtimeOut' = [type |-> "SERVER_STATUS", status |-> status']
     /\ (runtimeOut' # runtimeOut /\ runtimeOut'.type = "SERVER_STATUS") =>
          runtimeOut'.status = status']_vars
\* the bridge lost its session and told the runtime so
C30_Witness ==
  /\ status = "RECONNECTING"
  /\ runtimeOut = [type |-> "SERVER_STATUS", status |-> "RECONNECTING"]

\* C31: a patch stored over a record that an earlier patch of this run
\* stamped (the records found at startup carry lastUpdate 0) stores a greater
\* lastUpdate than the one it replaces.
C31_LastUpdateIncreases ==
  [][\A i \in 1..MaxInFlight :
       (/\ StorageWrite(i)
        /\ tasks[i].op = "patch"
        /\ tasks[i].tabId \in DOMAIN tabStates
        /\ tabStates[tasks[i].tabId].lastUpdate > 0) =>
         tabStates'[tasks[i].tabId].lastUpdate >
           tabStates[tasks[i].tabId].lastUpdate]_vars

\* C32: the open event of the current socket sets status CONNECTED and
\* reconnectAttempts 0, leaves exactly one heartbeat interval live and starts
\* sendTabsToPopupAndTauri; that call posts the active records to every
\* attached port and sends them on the socket if it is still open.
C32_OpenEstablishes ==
  [][/\ \A s \in 1..MaxSockets :
          (SocketOpen(s) /\ s = socket) =>
            /\ status' = "CONNECTED"
            /\ runtimeOut' = [type |-> "SERVER_STATUS", status |-> "CONNECTED"]
            /\ reconnectAttempts' = 0
            /\ heartbeatInterval' /\ liveIntervals' = 1
            /\ tasks' = Append(tasks, SendTask)
     /\ \A i \in 1..MaxInFlight :
          SendTabsToPopupAndTauri(i) =>
            /\ lastBroadcast'.tabs = AudioTabs(tabStates)
            /\ lastBroadcast'.ports = popupPorts
            /\ SocketIsOpen => lastBroadcast'.socket = socket]_vars
\* a later session is connected with one heartbeat interval, and the
\* snapshot went to its socket and to an attached port
C32_Witness ==
  /\ socket > 1 /\ SocketIsOpen
  /\ status = "CONNECTED" /\ reconnectAttempts = 0
  /\ heartbeatInterval /\ liveIntervals = 1
  /\ lastBroadcast.socket = socket
  /\ lastBroadcast.ports # <<>>

\* C33: while status is DISCONNECTED or RECONNECTING no heartbeat interval
\* is scheduled.
C33_HeartbeatOnlyConnected ==
  status \in {"DISCONNECTED", "RECONNECTING"} =>
    liveIntervals = 0 /\ ~heartbeatInterval

\* C34: the close that makes reconnectAttempts k, the k-th non-clean close
\* in a row, schedules the reconnect after min(1000 * 2^(k-1), 30000) ms.
C34_FirstRetryBaseDelay ==
  [][reconnectAttempts' = reconnectAttempts + 1 =>
       /\ lastDelay' = Min(BaseDelay * 2 ^ (reconnectAttempts' - 1), MaxDelay)
       /\ reconnectTimers' # <<>>
       /\ reconnectTimers'[Len(reconnectTimers')].delay = lastDelay']_vars

\* the AUDIO_STOPPED messages among those a step sends
StoppedEmitted == SelectSeq(Emitted, LAMBDA m : m.type = "AUDIO_STOPPED")

C36_FirstReportCreates ==
  \A t \in liveTabs \ DOMAIN tabStates :
    CanStart =>
      \A m \in PageMessages :
        ENABLED (/\ OnMessage(t, m)
                 /\ Len(tasks') = Len(tasks) + 1
                 /\ tasks'[Len(tasks')].op = "patch"
                 /\ tasks'[Len(tasks')].tabId = t)

\* C37: every stored record that is paused has hasContentAudio set.
C37_PausedImpliesObserved ==
  \A t \in DOMAIN tabStates :
    Truthy(tabStates[t], "paused") => Truthy(tabStates[t], "hasContentAudio")
\* a handler of this run has stored a paused record
C37_Witness ==
  \E t \in DOMAIN tabStates :
    /\ tabStates[t].lastUpdate > 0
    /\ Truthy(tabStates[t], "paused")
    /\ Truthy(tabStates[t], "hasContentAudio")

\* message m has the muted and volume of element e as it is
SampledFrom(m, e) ==
  /\ m.muted = (elements[e].muted \/ elements[e].volume = 0)
  /\ m.volume = elements[e].volume

\* C38: every message with a muted/volume payload that a step of the content
\* script sends has muted = (element.muted or element.volume = 0) and volume
\* = element.volume of a tracked element; for VOLUME_CHANGED and AUDIO_PAUSED
\* that element is the one whose event is dispatched.
C38_PayloadFromElement ==
  [][\A k \in DOMAIN Emitted :
       "muted" \in DOMAIN Emitted[k] =>
         IF Emitted[k].type \in {"VOLUME_CHANGED", "AUDIO_PAUSED"}
         THEN DispatchEvent /\ SampledFrom(Emitted[k], Head(events).elem)
         ELSE \E e \in {audioElements'[j] : j \in DOMAIN audioElements'} :
                SampledFrom(Emitted[k], e)]_vars
\* an AUDIO_PAUSED of an element at volume 0 whose muted flag is false has
\* been sent as muted
C38_Witness ==
  \E k \in DOMAIN outbox, e \in Tracked :
    /\ outbox[k].type = "AUDIO_PAUSED"
    /\ outbox[k].muted /\ outbox[k].volume = 0
    /\ ~elements[e].muted /\ elements[e].volume = 0 /\ elements[e].paused

\* C39: every stored record has all the fields of TabAudioState and is
\* stored under its own tabId.
C39_RecordsComplete ==
  \A t \in DOMAIN tabStates :
    /\ DOMAIN tabStates[t] = TabAudioStateFields
    /\ tabStates[t].tabId = t

\* C40: a GET_AUDIO_TABS handled while status is CONNECTED leaves the socket
\* variable, the socket's open state, the heartbeat interval and status as
\* they are.
C40_RequestKeepsSession ==
  [][\A p \in 1..MaxPorts :
       (OnGetAudioTabs(p) /\ status = "CONNECTED" /\ SocketIsOpen) =>
         /\ socket' = socket
         /\ sockets'[socket].readyState = "OPEN"
         /\ status' = "CONNECTED"
         /\ heartbeatInterval' /\ liveIntervals' = 1]_vars
====
